---- MODULE Spec2Model ----
(***************************************************************************)
(* The timeline annotation engine of the KPI trend chart (component        *)
(* KPIChart, src/unnamed/part_002): drag-to-place and click-to-edit of     *)
(* chart tags, and the reconciliation of suggested events with dismissed   *)
(* and pinned ones.                                                        *)
(*                                                                         *)
(* JavaScript objects are functions from field names to values; a field    *)
(* that is undefined in the program is absent from the function's domain.  *)
(* Calendar dates ("yyyy-mm-dd") are day numbers, Date instants are hours  *)
(* since day 0 in a zone of fixed offset.  Indices are 0-based as in the   *)
(* program; chartData is a TLA+ sequence, so sample i is chartData[i + 1]. *)
(* The fields color/tier/createdAt/updatedAt of a tag carry no behaviour:  *)
(* color is kept, the three others are left out.                           *)
(* The component is taken outside beta mode (isBeta false), where the      *)
(* chart is interactive, and its container wider than the axis and the     *)
(* margins.  With an empty data sequence it draws no chart, so no pointer  *)
(* handler can run then (ChartShown).                                      *)
(***************************************************************************)
EXTENDS Integers, Sequences, FiniteSets, TLC

VARIABLES
    chartData,          \* prop data/comparisonData mapped to chartData (l.52-58)
    displayMode,        \* prop displayMode: "both" | "ty" | "ly"
    showSuggestedEvents,\* prop showSuggestedEvents
    containerWidth,     \* width of the chart container (rect.width / state containerWidth)
    chartTags,          \* prop chartTags, the annotation store owned by the parent
    draggedTag,         \* state draggedTag: Null or the drag template
    dragPreview,        \* state dragPreview: Null or the preview record
    editingTagId,       \* state editingTagId: Null or a tag id
    editingTagData,     \* state editingTagData: Null or the draft
    dismissedEvents,    \* state dismissedEvents: list of event ids
    storedDismissed,    \* sessionStorage item 'dismissedEvents'
    storageFull,        \* sessionStorage.setItem throws (quota exceeded, storage disabled)
    editingEvent,       \* state editingEvent: Null or the event whose popover is open
    pendingTimers,      \* setTimeout callbacks of handleDrop not yet run
    clock,              \* Date.now(), advanced whenever an id is minted
    lastOp              \* history: the handler that ran last, with the argument some claims need

vars == <<chartData, displayMode, showSuggestedEvents, containerWidth, chartTags,
          draggedTag, dragPreview, editingTagId, editingTagData, dismissedEvents,
          storedDismissed, storageFull, editingEvent, pendingTimers, clock, lastOp>>

\* ------------------------------------------------------------------ bounds

\* Longest chart data sequence.
MaxN == 5
\* Number of ids minted in one run (custom templates, dropped tags, pinned tags).
MaxClock == 2
\* Date of the first sample.
BaseDay == 10
\* Width of the chart container in pixels.
InitWidth == 250

\* --------------------------------------------------------------- constants

Y_AXIS_WIDTH == 60
CHART_MARGINS == [top |-> 20, right |-> 20, left |-> 10, bottom |-> 20]
defaultSpanDays == 3
HoursPerDay == 24
LyShiftDays == 365

\* null of the program (useState(null)) where the value is an object.
Null == [null |-> TRUE]
\* null where the value is an id string (editingTagId).
NullId == ""
\* null where the value is a date (getDateFromIndex's "return null").
NullDate == 0

\* One preset template stands for the five of PRESET_TAGS, which differ in
\* id, name and color only.
PRESET_TAGS == { [id |-> "promo", name |-> "Promo", color |-> "#34C759"] }

\* The events prop: raw suggested events.  "bf" lies inside every non-empty
\* chart range, "edge" is the single day of the last sample of the longest
\* range, "ny" ends one flat year (365 days) after the first sample.
events ==
    << [id |-> "bf",   label |-> "Black Friday", startDate |-> BaseDay + 1,
        endDate |-> BaseDay + 2, color |-> "#F96302", tier |-> TRUE],
       [id |-> "edge", label |-> "Edge Sale", startDate |-> BaseDay + MaxN - 1,
        endDate |-> BaseDay + MaxN - 1, color |-> "#5856D6", tier |-> FALSE],
       [id |-> "ny",   label |-> "Next Year", startDate |-> BaseDay + LyShiftDays - 1,
        endDate |-> BaseDay + LyShiftDays, color |-> "#FF3B30", tier |-> FALSE] >>

\* ----------------------------------------------------------------- helpers

\* { ...base, ...patch }
Merge(base, patch) ==
    [k \in (DOMAIN base) \cup (DOMAIN patch) |->
        IF k \in DOMAIN patch THEN patch[k] ELSE base[k]]

\* obj.field || dflt, for a string field
StrOr(obj, field, dflt) ==
    IF field \in DOMAIN obj /\ obj[field] # "" THEN obj[field] ELSE dflt

Range(s) == { s[i] : i \in DOMAIN s }

Min(a, b) == IF a <= b THEN a ELSE b
Max(a, b) == IF a >= b THEN a ELSE b

\* Daily samples BaseDay, BaseDay + 1, ...
Daily(n) == [i \in 1..n |-> [date |-> BaseDay + i - 1]]

\* The data sequences the parent passes: empty, a short and the longest range.
DataSets == { Daily(0), Daily(MaxN - 2), Daily(MaxN) }

\* new Date(dateStr + 'T00:00:00').getTime(), in hours
ParseLocalMidnight(d) == d * HoursPerDay

\* ------------------------------------------------------- coordinate mapper

chartAreaLeft == Y_AXIS_WIDTH + CHART_MARGINS.left
chartAreaWidth == containerWidth - chartAreaLeft - CHART_MARGINS.right

\* Math.round(num / den) for num >= 0, den > 0: floor(num/den + 1/2)
RoundDiv_Mut(num, den) == num \div den
RoundDiv(num, den) == (2 * num + den) \div (2 * den)

getDateIndexFromX_Mut(clientX) ==
    IF Len(chartData) = 0 THEN -1
    ELSE LET pnum == Max(0, Min(chartAreaWidth, clientX))
             dataIndex == RoundDiv(pnum * (Len(chartData) - 1), chartAreaWidth)
         IN  Max(0, Min(dataIndex, Len(chartData) - 1))

\* getDateIndexFromX(clientX); clientX is taken relative to rect.left, and the
\* container is mounted (rect is not null) and wider than the axis and margins.
getDateIndexFromX(clientX) ==
    IF Len(chartData) = 0 THEN -1
    ELSE LET relativeX == clientX - chartAreaLeft
             \* percentage = max(0, min(1, relativeX / chartAreaWidth)), kept as
             \* the fraction pnum / chartAreaWidth
             pnum == Max(0, Min(chartAreaWidth, relativeX))
             dataIndex == RoundDiv(pnum * (Len(chartData) - 1), chartAreaWidth)
         IN  Max(0, Min(dataIndex, Len(chartData) - 1))

getDateFromIndex(index) ==
    IF Len(chartData) = 0 \/ index < 0 \/ index >= Len(chartData) THEN NullDate
    ELSE chartData[index + 1].date

\* getIndexFromDate(dateStr), dateStr possibly undefined (absent)
getIndexFromDate(obj, field) ==
    IF Len(chartData) = 0 \/ field \notin DOMAIN obj THEN -1
    ELSE IF \E i \in 1..Len(chartData) : chartData[i].date = obj[field]
         THEN (CHOOSE i \in 1..Len(chartData) :
                  /\ chartData[i].date = obj[field]
                  /\ \A j \in 1..(i - 1) : chartData[j].date # obj[field]) - 1
         ELSE -1

\* getXPositionForIndex(index), a pixel position inside the container, kept as
\* the fraction num / den: the position of sample N - 1 apart, it is rarely a
\* whole pixel.
getXPositionForIndex_Mut(index) ==
    IF Len(chartData) = 0 \/ index < 0 THEN [num |-> 0, den |-> 1]
    ELSE [num |-> chartAreaLeft * Len(chartData) + index * chartAreaWidth,
          den |-> Len(chartData)]

getXPositionForIndex(index) ==
    IF Len(chartData) = 0 \/ index < 0 THEN [num |-> 0, den |-> 1]
    ELSE IF containerWidth = 0 THEN [num |-> 0, den |-> 1]
    ELSE IF Len(chartData) = 1
         THEN [num |-> 2 * chartAreaLeft + chartAreaWidth, den |-> 2]
    ELSE [num |-> chartAreaLeft * (Len(chartData) - 1) + index * chartAreaWidth,
          den |-> Len(chartData) - 1]

\* getDateIndexFromX(clientX) for a pointer position that is not a whole
\* pixel, given as the fraction f.num / f.den (f.den > 0)
getDateIndexFromXAt_Mut(f) ==
    IF Len(chartData) = 0 THEN -1
    ELSE LET pnum == Max(0, Min(chartAreaWidth * f.den, f.num))
             dataIndex == RoundDiv(pnum * (Len(chartData) - 1), chartAreaWidth * f.den)
         IN  Max(0, Min(dataIndex, Len(chartData) - 1))

getDateIndexFromXAt(f) ==
    IF Len(chartData) = 0 THEN -1
    ELSE LET \* relativeX = relNum / f.den
             relNum == f.num - chartAreaLeft * f.den
             \* percentage = pnum / (chartAreaWidth * f.den)
             pnum == Max(0, Min(chartAreaWidth * f.den, relNum))
             dataIndex == RoundDiv(pnum * (Len(chartData) - 1), chartAreaWidth * f.den)
         IN  Max(0, Min(dataIndex, Len(chartData) - 1))

\* Math.abs(a - b)
AbsDiff(a, b) == IF a >= b THEN a - b ELSE b - a

\* let bestDiff = Infinity
Infinity == -1

\* if (diff < bestDiff)
Closer_Mut(diff, bestDiff) == bestDiff = Infinity \/ diff <= bestDiff
Closer(diff, bestDiff) == bestDiff = Infinity \/ diff < bestDiff

\* the for loop of getIndexForDate, from sample i on
RECURSIVE NearestFrom(_, _, _, _)
NearestFrom(i, bestIdx, bestDiff, targetDate) ==
    IF i >= Len(chartData) THEN bestIdx
    ELSE LET d == ParseLocalMidnight(chartData[i + 1].date)
             diff == AbsDiff(d, targetDate)
         IN  IF Closer(diff, bestDiff)
             THEN NearestFrom(i + 1, i, diff, targetDate)
             ELSE NearestFrom(i + 1, bestIdx, bestDiff, targetDate)

\* getIndexForDate(targetDate), targetDate a Date instant
getIndexForDate(targetDate) ==
    IF Len(chartData) = 0 THEN -1
    ELSE NearestFrom(0, 0, Infinity, targetDate)

\* ------------------------------------------------------------ session storage

\* The item 'dismissedEvents' of sessionStorage: absent (getItem returns null),
\* text that JSON.parse rejects, or the JSON text of a list.
NoItem == [kind |-> "none"]
CorruptItem == [kind |-> "corrupt"]
Stored(list) == [kind |-> "json", value |-> list]

\* the useState initializer of dismissedEvents:
\* stored ? JSON.parse(stored) : [], and [] when that throws
ReadStored_Mut(item) == << >>
ReadStored(item) == IF item.kind = "json" THEN item.value ELSE << >>

\* the persist effect: setItem('dismissedEvents', JSON.stringify(list)), an
\* exception of setItem being swallowed
Persisted(list) == IF storageFull THEN storedDismissed ELSE Stored(list)

\* ---------------------------------------------------------------- reconciler

\* pinnedEventIds: the sourceEventId of every tag that has one
pinnedEventIds ==
    { chartTags[i].sourceEventId :
        i \in { j \in DOMAIN chartTags : "sourceEventId" \in DOMAIN chartTags[j]
                                          /\ chartTags[j].sourceEventId # "" } }

yearLabelOf(mode) == IF mode = "ly" THEN "LY" ELSE "TY"

\* the .map step of getFilteredEvents: attach adjustedStart/adjustedEnd/yearLabel
AdjustEvent_Mut(ev) ==
    LET evStart == ParseLocalMidnight(ev.startDate)
        evEnd   == ParseLocalMidnight(ev.endDate)
        shift   == IF displayMode = "ly" THEN LyShiftDays * HoursPerDay ELSE 0
    IN  Merge(ev, [adjustedStart |-> evStart - shift,
                   adjustedEnd   |-> evEnd,
                   yearLabel     |-> yearLabelOf(displayMode)])

AdjustEvent(ev) ==
    LET evStart == ParseLocalMidnight(ev.startDate)
        evEnd   == ParseLocalMidnight(ev.endDate)
        shift   == IF displayMode = "ly" THEN LyShiftDays * HoursPerDay ELSE 0
    IN  Merge(ev, [adjustedStart |-> evStart - shift,
                   adjustedEnd   |-> evEnd - shift,
                   yearLabel     |-> yearLabelOf(displayMode)])

\* !dismissedEvents.includes(ev.id)
NotDismissed_Mut(ev) == TRUE
NotDismissed(ev) == ev.id \notin Range(dismissedEvents)

\* !pinnedEventIds.includes(ev.id)
NotPinned_Mut(ev) == TRUE
NotPinned(ev) == ev.id \notin pinnedEventIds

\* ev.adjustedStart <= chartEnd && ev.adjustedEnd >= chartStart
Overlaps_Mut(ev, chartStart, chartEnd) ==
    ev.adjustedStart < chartEnd /\ ev.adjustedEnd > chartStart
Overlaps(ev, chartStart, chartEnd) ==
    ev.adjustedStart <= chartEnd /\ ev.adjustedEnd >= chartStart

\* the body of getFilteredEvents for a raw event list evs
FilterEvents(evs) ==
    IF Len(evs) = 0 \/ Len(chartData) = 0 THEN <<>>
    ELSE LET chartStart == ParseLocalMidnight(chartData[1].date)
             chartEnd   == ParseLocalMidnight(chartData[Len(chartData)].date)
             notDismissed == SelectSeq(evs, NotDismissed)
             notPinned    == SelectSeq(notDismissed, NotPinned)
             mapped       == [i \in DOMAIN notPinned |-> AdjustEvent(notPinned[i])]
         IN  SelectSeq(mapped, LAMBDA ev : Overlaps(ev, chartStart, chartEnd))

getFilteredEvents == FilterEvents(events)

\* what renderEventSpans draws as suggestions
suggestedEvents == IF showSuggestedEvents THEN getFilteredEvents ELSE <<>>

\* -------------------------------------------------------------- input sets

\* Pointer positions: left of the plot, inside it off the sample grid, right of it.
Pixels == { chartAreaLeft - 5,
            chartAreaLeft + (3 * chartAreaWidth) \div 8,
            chartAreaLeft + chartAreaWidth + 5 }

\* Contents of the custom tag form when Create is pressed (no surrounding
\* white space, so that trim() leaves them as they are).
CustomForms == { [name |-> "Launch", owner |-> "Ann", description |-> ""],
                 [name |-> "",       owner |-> "Ann", description |-> ""] }

\* (field, value) pairs typed into the edit popover.
EditInputs == { <<"name", "">>, <<"owner", "Bob">> }

\* Arguments of handleStartDateChange / handleEndDateChange.
IndexInputs == (-1)..MaxN

Modes == { "both", "ty", "ly" }

\* -------------------------------------------------------------------- Init

Init ==
    /\ chartData \in DataSets
    /\ displayMode = "both"
    /\ showSuggestedEvents = FALSE
    /\ containerWidth = InitWidth
    /\ chartTags = <<>>
    /\ draggedTag = Null
    /\ dragPreview = Null
    /\ editingTagId = NullId
    /\ editingTagData = Null
    /\ dismissedEvents = <<>>
    /\ storedDismissed = Stored(<<>>)
    /\ storageFull = FALSE
    /\ editingEvent = Null
    /\ pendingTimers = {}
    /\ clock = 0
    /\ lastOp = [op |-> "init"]

\* The stores the parent may hold when the chart is mounted again: what a
\* drop of the preset at sample i, and a pin of the first event in display
\* mode "both", appended at time 0.
PlacedAt(i) ==
    Merge(CHOOSE t \in PRESET_TAGS : TRUE,
          [id |-> "promo-0", date |-> BaseDay + i,
           startDate |-> BaseDay + i, endDate |-> BaseDay + i,
           dateIndex |-> i, startIndex |-> i, endIndex |-> i,
           isSpan |-> FALSE, isManual |-> TRUE])

PinnedAtMount ==
    [id |-> "pinned-bf-0", name |-> events[1].label, color |-> events[1].color,
     sourceEventId |-> events[1].id, isSpan |-> TRUE,
     startDate |-> events[1].startDate, endDate |-> events[1].endDate,
     adjustedStart |-> ParseLocalMidnight(events[1].startDate),
     adjustedEnd |-> ParseLocalMidnight(events[1].endDate),
     yearLabel |-> "TY", tier |-> events[1].tier, source |-> "suggested"]

InitialStores == { <<PlacedAt(1)>>, <<PinnedAtMount, PlacedAt(MaxN - 1)>> }

InitEdit ==
    /\ chartData \in DataSets
    /\ displayMode = "both"
    /\ showSuggestedEvents = FALSE
    /\ containerWidth = InitWidth
    /\ chartTags \in InitialStores
    /\ draggedTag = Null
    /\ dragPreview = Null
    /\ editingTagId = NullId
    /\ editingTagData = Null
    /\ dismissedEvents = <<>>
    /\ storedDismissed = Stored(<<>>)
    /\ storageFull = FALSE
    /\ editingEvent = Null
    /\ pendingTimers = {}
    /\ clock = 0
    /\ lastOp = [op |-> "init"]

\* ------------------------------------------------------------ drag and drop

propsUnchanged == UNCHANGED <<chartData, displayMode, showSuggestedEvents, containerWidth>>
sessionUnchanged == UNCHANGED <<editingTagId, editingTagData>>
suggestUnchanged == UNCHANGED <<dismissedEvents, storedDismissed, storageFull, editingEvent>>

\* The chart, the pills and the tag panel are drawn only when there is data:
\* with an empty sequence the component returns the "No data available" box.
ChartShown == Len(chartData) > 0

\* the templates the tag panel offers for dragging
DragTemplates ==
    PRESET_TAGS \cup (IF draggedTag # Null /\ "isCustom" \in DOMAIN draggedTag
                      THEN {draggedTag} ELSE {})

HandleDragStart(tag) ==
    /\ ChartShown
    /\ tag \in DragTemplates
    /\ draggedTag' = Merge(tag, [id |-> tag.id])
    /\ lastOp' = [op |-> "dragStart"]
    /\ propsUnchanged /\ sessionUnchanged /\ suggestUnchanged
    /\ UNCHANGED <<chartTags, dragPreview, pendingTimers, clock>>

HandleDragOver(clientX) ==
    /\ ChartShown
    /\ clientX \in Pixels
    /\ lastOp' = [op |-> "dragOver"]
    /\ IF draggedTag = Null \/ Len(chartData) = 0
       THEN UNCHANGED dragPreview
       ELSE LET dateIndex == getDateIndexFromX(clientX)
                targetDate == getDateFromIndex(dateIndex)
            IN  IF targetDate # NullDate /\ dateIndex >= 0
                THEN dragPreview' = [date |-> targetDate, index |-> dateIndex,
                                     tag |-> draggedTag]
                ELSE UNCHANGED dragPreview
    /\ propsUnchanged /\ sessionUnchanged /\ suggestUnchanged
    /\ UNCHANGED <<chartTags, draggedTag, pendingTimers, clock>>

HandleDragLeave(outside) ==
    /\ ChartShown
    /\ outside \in BOOLEAN
    /\ lastOp' = [op |-> "dragLeave"]
    /\ dragPreview' = IF outside THEN Null ELSE dragPreview
    /\ propsUnchanged /\ sessionUnchanged /\ suggestUnchanged
    /\ UNCHANGED <<chartTags, draggedTag, pendingTimers, clock>>

\* [...(chartTags || []), newTag]
AddTag_Mut(tags, newTag) == << newTag >> \o tags
AddTag(tags, newTag) == Append(tags, newTag)

\* `${draggedTag.id}-${Date.now()}-${random}`
UniqueId_Mut(template, now) == template.id
UniqueId(template, now) == template.id \o "-" \o ToString(now)

\* the newTag object of handleDrop
NewTag_Mut(template, uniqueId, targetDate, dateIndex) ==
    Merge(template, [id |-> uniqueId, date |-> targetDate,
                     startDate |-> targetDate, endDate |-> targetDate,
                     dateIndex |-> dateIndex, startIndex |-> dateIndex,
                     endIndex |-> dateIndex, isSpan |-> FALSE])
NewTag(template, uniqueId, targetDate, dateIndex) ==
    Merge(template, [id |-> uniqueId, date |-> targetDate,
                     startDate |-> targetDate, endDate |-> targetDate,
                     dateIndex |-> dateIndex, startIndex |-> dateIndex,
                     endIndex |-> dateIndex, isSpan |-> FALSE, isManual |-> TRUE])

\* the editingTagData the deferred callback of handleDrop installs
DropDraft(newTag, targetDate, dateIndex) ==
    [name |-> newTag.name,
     owner |-> StrOr(newTag, "owner", ""),
     description |-> StrOr(newTag, "description", ""),
     startDate |-> targetDate, endDate |-> targetDate,
     startIndex |-> dateIndex, endIndex |-> dateIndex]

HandleDrop(clientX) ==
    /\ ChartShown
    /\ clientX \in Pixels
    /\ lastOp' = [op |-> "drop", x |-> clientX]
    /\ IF draggedTag = Null \/ Len(chartData) = 0
       THEN UNCHANGED <<chartTags, pendingTimers, clock, draggedTag, dragPreview>>
       ELSE LET dateIndex  == getDateIndexFromX(clientX)
                targetDate == getDateFromIndex(dateIndex)
                uniqueId   == UniqueId(draggedTag, clock + 1)
                newTag     == NewTag(draggedTag, uniqueId, targetDate, dateIndex)
            IN  /\ clock < MaxClock
                /\ IF targetDate # NullDate
                   THEN /\ chartTags' = AddTag(chartTags, newTag)
                        /\ pendingTimers' = pendingTimers \cup
                              { [id |-> uniqueId,
                                 data |-> DropDraft(newTag, targetDate, dateIndex)] }
                        /\ clock' = clock + 1
                   ELSE UNCHANGED <<chartTags, pendingTimers, clock>>
                /\ draggedTag' = Null
                /\ dragPreview' = Null
    /\ propsUnchanged /\ sessionUnchanged /\ suggestUnchanged

\* the callback handleDrop passed to setTimeout(..., 50)
DropTimerFires(timer) ==
    /\ timer \in pendingTimers
    /\ pendingTimers' = pendingTimers \ {timer}
    /\ editingTagId' = timer.id
    /\ editingTagData' = timer.data
    /\ lastOp' = [op |-> "dropTimer"]
    /\ propsUnchanged /\ suggestUnchanged
    /\ UNCHANGED <<chartTags, draggedTag, dragPreview, clock>>

HandleDragEnd_Mut ==
    /\ ChartShown
    /\ dragPreview' = Null
    /\ lastOp' = [op |-> "dragEnd", dragging |-> draggedTag # Null,
                  preview |-> dragPreview # Null]
    /\ propsUnchanged /\ sessionUnchanged /\ suggestUnchanged
    /\ UNCHANGED <<chartTags, draggedTag, pendingTimers, clock>>

HandleDragEnd ==
    /\ ChartShown
    /\ dragPreview' = Null
    /\ draggedTag' = Null
    /\ lastOp' = [op |-> "dragEnd", dragging |-> draggedTag # Null,
                  preview |-> dragPreview # Null]
    /\ propsUnchanged /\ sessionUnchanged /\ suggestUnchanged
    /\ UNCHANGED <<chartTags, pendingTimers, clock>>

HandleAddCustomTag(form) ==
    /\ ChartShown
    /\ form \in CustomForms
    /\ lastOp' = [op |-> "addCustomTag"]
    /\ IF form.name = "" \/ form.owner = ""
       THEN UNCHANGED <<draggedTag, clock>>
       ELSE /\ clock < MaxClock
            /\ clock' = clock + 1
            /\ draggedTag' = [id |-> "custom-" \o ToString(clock + 1),
                              name |-> form.name, owner |-> form.owner,
                              description |-> form.description,
                              color |-> "#6e6e73", isCustom |-> TRUE]
    /\ propsUnchanged /\ sessionUnchanged /\ suggestUnchanged
    /\ UNCHANGED <<chartTags, dragPreview, pendingTimers>>

\* ----------------------------------------------------------------- rendering

Flag(obj, field) == field \in DOMAIN obj /\ obj[field]

\* renderPlacedTags draws the tag (a point tag whose sample can be found)
PointTagRendered(tag) ==
    /\ Len(chartData) > 0
    /\ ~Flag(tag, "isSpan")
    /\ LET dateIndex ==
               IF "dateIndex" \in DOMAIN tag /\ tag.dateIndex >= 0
                  /\ tag.dateIndex < Len(chartData)
               THEN tag.dateIndex
               ELSE getIndexFromDate(tag, "date")
       IN  dateIndex # -1 /\ dateIndex < Len(chartData)

\* getManualSpans / renderEventSpans draw the tag as a manual span
ManualSpanRendered(tag) ==
    /\ Len(chartData) > 0
    /\ Flag(tag, "isSpan") /\ Flag(tag, "isManual")

\* renderCompactEditPopover(tag) is on screen
PopoverShown(tag) ==
    /\ editingTagId = tag.id
    /\ editingTagData # Null
    /\ PointTagRendered(tag) \/ ManualSpanRendered(tag)

PopoverOpen == \E i \in DOMAIN chartTags : PopoverShown(chartTags[i])

\* the samples between which renderSingleSpan draws a span of the store:
\* clampedStart and clampedEnd
SpanIndices(tag) ==
    LET startIdx == IF Flag(tag, "isManual") THEN tag.startIndex
                    ELSE getIndexForDate(tag.adjustedStart)
        endIdx   == IF Flag(tag, "isManual") THEN tag.endIndex
                    ELSE getIndexForDate(tag.adjustedEnd)
    IN  << Max(0, startIdx), Min(Len(chartData) - 1, endIdx) >>

\* the sample on which renderPlacedTags draws a point tag, -1 when it draws none
PointIndex(tag) ==
    IF "dateIndex" \in DOMAIN tag /\ tag.dateIndex >= 0 /\ tag.dateIndex < Len(chartData)
    THEN tag.dateIndex
    ELSE getIndexFromDate(tag, "date")

\* where an annotation of the store is drawn
RenderedRange(tag) ==
    IF Flag(tag, "isSpan") THEN SpanIndices(tag) ELSE << PointIndex(tag), PointIndex(tag) >>

\* ------------------------------------------------------------- edit session

\* tag.a || tag.b for date fields
DateOr(tag, a, b) ==
    IF a \in DOMAIN tag /\ tag[a] # NullDate THEN tag[a]
    ELSE IF b \in DOMAIN tag THEN tag[b] ELSE NullDate

\* the editingTagData openTagEditor installs
OpenDraft_Mut(tag) ==
    LET tagIndex == IF "startIndex" \in DOMAIN tag THEN tag.startIndex
                    ELSE IF "dateIndex" \in DOMAIN tag THEN tag.dateIndex
                    ELSE getIndexFromDate(tag, "date")
    IN  [name |-> StrOr(tag, "name", ""),
         owner |-> StrOr(tag, "owner", ""),
         description |-> StrOr(tag, "description", ""),
         startDate |-> DateOr(tag, "startDate", "date"),
         endDate |-> DateOr(tag, "endDate", "date"),
         startIndex |-> tagIndex,
         endIndex |-> tagIndex]

OpenDraft(tag) ==
    LET tagIndex == IF "startIndex" \in DOMAIN tag THEN tag.startIndex
                    ELSE IF "dateIndex" \in DOMAIN tag THEN tag.dateIndex
                    ELSE getIndexFromDate(tag, "date")
        endIndex == IF "endIndex" \in DOMAIN tag THEN tag.endIndex ELSE tagIndex
    IN  [name |-> StrOr(tag, "name", ""),
         owner |-> StrOr(tag, "owner", ""),
         description |-> StrOr(tag, "description", ""),
         startDate |-> DateOr(tag, "startDate", "date"),
         endDate |-> DateOr(tag, "endDate", "date"),
         startIndex |-> tagIndex,
         endIndex |-> endIndex]

openTagEditor_Mut(tagId, tag) ==
    /\ editingTagId' = tagId
    /\ editingTagData' = IF editingTagData # Null THEN editingTagData ELSE OpenDraft(tag)

openTagEditor(tagId, tag) ==
    /\ editingTagId' = tagId
    /\ editingTagData' = OpenDraft(tag)

closeTagEditor_Mut ==
    /\ editingTagId' = NullId
    /\ UNCHANGED editingTagData
closeTagEditor ==
    /\ editingTagId' = NullId
    /\ editingTagData' = Null

editFrame ==
    /\ propsUnchanged /\ suggestUnchanged
    /\ UNCHANGED <<chartTags, draggedTag, dragPreview, pendingTimers, clock>>

\* click on a tag's pill in the active-tags list
PillClick(i) ==
    /\ ChartShown
    /\ i \in DOMAIN chartTags
    /\ openTagEditor(chartTags[i].id, chartTags[i])
    /\ lastOp' = [op |-> "openEditor", from |-> editingTagId]
    /\ editFrame

\* click on the label of a placed point tag
HandleTagLabelClick(i) ==
    /\ i \in DOMAIN chartTags
    /\ PointTagRendered(chartTags[i])
    /\ IF editingTagId = chartTags[i].id
       THEN sessionUnchanged
       ELSE openTagEditor(chartTags[i].id, chartTags[i])
    /\ lastOp' = [op |-> "tagLabelClick"]
    /\ editFrame

\* click on the label of a manual span
SpanLabelClick(i) ==
    /\ i \in DOMAIN chartTags
    /\ ManualSpanRendered(chartTags[i])
    /\ IF editingTagId # chartTags[i].id
       THEN openTagEditor(chartTags[i].id, chartTags[i])
       ELSE sessionUnchanged
    /\ lastOp' = [op |-> "spanLabelClick"]
    /\ editFrame

\* the popover's close button
CloseButton ==
    /\ ChartShown
    /\ PopoverOpen
    /\ closeTagEditor
    /\ lastOp' = [op |-> "cancel"]
    /\ editFrame

\* handleClickOutside, listening while a tag or an event is being edited
HandleClickOutside ==
    /\ editingTagId # NullId \/ editingEvent # Null
    /\ editingTagId' = NullId
    /\ editingTagData' = Null
    /\ editingEvent' = Null
    /\ lastOp' = [op |-> "clickOutside"]
    /\ propsUnchanged
    /\ UNCHANGED <<chartTags, draggedTag, dragPreview, pendingTimers, clock,
                   dismissedEvents, storedDismissed, storageFull>>

HandleEditingDataChange(field, value) ==
    /\ <<field, value>> \in EditInputs
    /\ PopoverOpen
    /\ editingTagData' = IF editingTagData # Null
                         THEN Merge(editingTagData, [f \in {field} |-> value])
                         ELSE Null
    /\ lastOp' = [op |-> "editField"]
    /\ UNCHANGED editingTagId
    /\ editFrame

\* let endIndex = editingTagData.endIndex; if (newIndex > endIndex) endIndex = newIndex
PulledEnd_Mut(newIndex, endIndex) == endIndex
PulledEnd(newIndex, endIndex) == IF newIndex > endIndex THEN newIndex ELSE endIndex

\* let startIndex = editingTagData.startIndex; if (newIndex < startIndex) startIndex = newIndex
PulledStart(newIndex, startIndex) == IF newIndex < startIndex THEN newIndex ELSE startIndex

HandleStartDateChange(newIndex) ==
    /\ newIndex \in IndexInputs
    /\ PopoverOpen
    /\ lastOp' = [op |-> "changeStart", i |-> newIndex]
    /\ IF editingTagData = Null \/ newIndex < 0 \/ newIndex >= Len(chartData)
          \/ getDateFromIndex(newIndex) = NullDate
       THEN UNCHANGED editingTagData
       ELSE LET newStartDate == getDateFromIndex(newIndex)
                endIndex == PulledEnd(newIndex, editingTagData.endIndex)
                endDate == IF getDateFromIndex(endIndex) # NullDate
                           THEN getDateFromIndex(endIndex)
                           ELSE editingTagData.endDate
            IN  editingTagData' = Merge(editingTagData,
                    [startDate |-> newStartDate, startIndex |-> newIndex,
                     endDate |-> endDate, endIndex |-> endIndex])
    /\ UNCHANGED editingTagId
    /\ editFrame

HandleEndDateChange(newIndex) ==
    /\ newIndex \in IndexInputs
    /\ PopoverOpen
    /\ lastOp' = [op |-> "changeEnd", i |-> newIndex]
    /\ IF editingTagData = Null \/ newIndex < 0 \/ newIndex >= Len(chartData)
          \/ getDateFromIndex(newIndex) = NullDate
       THEN UNCHANGED editingTagData
       ELSE LET newEndDate == getDateFromIndex(newIndex)
                startIndex == PulledStart(newIndex, editingTagData.startIndex)
                startDate == IF getDateFromIndex(startIndex) # NullDate
                             THEN getDateFromIndex(startIndex)
                             ELSE editingTagData.startDate
            IN  editingTagData' = Merge(editingTagData,
                    [endDate |-> newEndDate, endIndex |-> newIndex,
                     startDate |-> startDate, startIndex |-> startIndex])
    /\ UNCHANGED editingTagId
    /\ editFrame

\* new Date(dateStr + 'T00:00:00').toISOString(): the instant itself
ToISOString(instant) == instant

\* the object handleSaveTagEdit puts in place of the edited tag
SavedTag(tag, draft, mode) ==
    Merge(tag, [name |-> draft.name, owner |-> draft.owner,
                description |-> draft.description,
                startDate |-> draft.startDate, endDate |-> draft.endDate,
                date |-> draft.startDate,
                startIndex |-> draft.startIndex, endIndex |-> draft.endIndex,
                dateIndex |-> draft.startIndex,
                isSpan |-> (draft.startIndex # draft.endIndex),
                adjustedStart |-> ToISOString(ParseLocalMidnight(draft.startDate)),
                adjustedEnd |-> ToISOString(ParseLocalMidnight(draft.endDate)),
                yearLabel |-> yearLabelOf(mode)])

HandleSaveTagEdit ==
    /\ PopoverOpen
    /\ lastOp' = [op |-> "save",
                  \* the draft is as the opening just before seeded it
                  fresh |-> /\ lastOp.op \in {"openEditor", "tagLabelClick", "spanLabelClick"}
                            /\ \E i \in DOMAIN chartTags :
                                  /\ chartTags[i].id = editingTagId
                                  /\ editingTagData = OpenDraft(chartTags[i])]
    /\ IF editingTagId = NullId \/ editingTagData = Null
       THEN UNCHANGED <<chartTags, editingTagId, editingTagData>>
       ELSE /\ chartTags' = [i \in DOMAIN chartTags |->
                               IF chartTags[i].id = editingTagId
                               THEN SavedTag(chartTags[i], editingTagData, displayMode)
                               ELSE chartTags[i]]
            /\ closeTagEditor
    /\ propsUnchanged /\ suggestUnchanged
    /\ UNCHANGED <<draggedTag, dragPreview, pendingTimers, clock>>

\* Math.min(currentIndex + defaultSpanDays, chartData.length - 1)
SpanEnd_Mut(currentIndex, n) == currentIndex + defaultSpanDays
SpanEnd(currentIndex, n) == Min(currentIndex + defaultSpanDays, n - 1)

\* "Make Span", offered while the draft is a point
HandleConvertToSpan ==
    /\ PopoverOpen
    /\ editingTagData.startIndex = editingTagData.endIndex
    /\ lastOp' = [op |-> "convertToSpan", before |-> editingTagData]
    /\ LET currentIndex == editingTagData.startIndex
           newEndIndex == SpanEnd(currentIndex, Len(chartData))
           newEndDate == getDateFromIndex(newEndIndex)
       IN  editingTagData' = Merge(editingTagData,
               [endDate |-> IF newEndDate # NullDate THEN newEndDate
                            ELSE editingTagData.endDate,
                endIndex |-> newEndIndex])
    /\ UNCHANGED editingTagId
    /\ editFrame

\* { ...prev, endDate: startDate, endIndex: startIndex }
ConvertedToPoint_Mut(draft) == Merge(draft, [endIndex |-> draft.startIndex])
ConvertedToPoint(draft) ==
    Merge(draft, [endDate |-> draft.startDate, endIndex |-> draft.startIndex])

\* "Single Day", offered while the draft is a span
HandleConvertToPoint ==
    /\ PopoverOpen
    /\ editingTagData.startIndex # editingTagData.endIndex
    /\ lastOp' = [op |-> "convertToPoint", prev |-> lastOp.op]
    /\ editingTagData' = ConvertedToPoint(editingTagData)
    /\ UNCHANGED editingTagId
    /\ editFrame

\* (chartTags || []).filter(t => t.id !== tagId)
WithoutTag_Mut(tags, tagId) == SelectSeq(tags, LAMBDA t : t.id = tagId)
\* removal by position: tags.splice(tags.findIndex(t => t.id === tagId), 1)
WithoutTag_Splice(tags, tagId) ==
    IF \E i \in DOMAIN tags : tags[i].id = tagId
    THEN SelectSeq(tags, LAMBDA t : t.id # tagId)
    ELSE SubSeq(tags, 1, Len(tags) - 1)
WithoutTag(tags, tagId) == SelectSeq(tags, LAMBDA t : t.id # tagId)

\* the remove button of a pill or label, or Delete in the popover
\* if (editingTagId === tagId) closeTagEditor()
RemovesEdited_Mut(tagId) == FALSE
RemovesEdited(tagId) == editingTagId = tagId

HandleRemoveTag(tagId) ==
    /\ ChartShown
    /\ tagId \in { chartTags[i].id : i \in DOMAIN chartTags }
    /\ chartTags' = WithoutTag(chartTags, tagId)
    /\ IF RemovesEdited(tagId) THEN closeTagEditor ELSE sessionUnchanged
    /\ lastOp' = [op |-> "remove", id |-> tagId,
                  session |-> IF editingTagId # tagId \/ editingTagData = Null THEN "none"
                              ELSE IF editingTagData.name = "" THEN "unnamed"
                              ELSE "open"]
    /\ propsUnchanged /\ suggestUnchanged
    /\ UNCHANGED <<draggedTag, dragPreview, pendingTimers, clock>>

\* ------------------------------------------------------- suggested events

suggestFrame ==
    /\ propsUnchanged /\ sessionUnchanged
    /\ UNCHANGED <<draggedTag, dragPreview, pendingTimers>>

\* prev => [...prev, eventId]
Dismissed_Mut(prev, eventId) == << eventId >>
Dismissed(prev, eventId) == Append(prev, eventId)

HandleDismissEvent(eventId) ==
    /\ ChartShown
    /\ eventId \in { suggestedEvents[i].id : i \in DOMAIN suggestedEvents }
    /\ dismissedEvents' = Dismissed(dismissedEvents, eventId)
    /\ storedDismissed' = Persisted(dismissedEvents')
    /\ UNCHANGED storageFull
    /\ lastOp' = [op |-> "dismiss", ev |-> eventId]
    /\ suggestFrame
    /\ UNCHANGED <<chartTags, editingEvent, clock>>

\* "Restore n dismissed", shown while the list is not empty
HandleResetDismissed ==
    /\ ChartShown
    /\ Len(dismissedEvents) > 0
    /\ dismissedEvents' = <<>>
    /\ storedDismissed' = Persisted(dismissedEvents')
    /\ UNCHANGED storageFull
    /\ lastOp' = [op |-> "reset"]
    /\ suggestFrame
    /\ UNCHANGED <<chartTags, editingEvent, clock>>

\* click on the label of a suggested span: toggles its popover
EventLabelClick(ev) ==
    /\ ChartShown
    /\ ev \in Range(suggestedEvents)
    /\ editingEvent' = IF editingEvent # Null /\ editingEvent.id = ev.id THEN Null ELSE ev
    /\ lastOp' = [op |-> "eventLabelClick"]
    /\ suggestFrame
    /\ UNCHANGED <<chartTags, dismissedEvents, storedDismissed, storageFull, clock>>

\* the suggestion popover of ev is on screen
EventPopoverShown(ev) ==
    /\ ev \in Range(suggestedEvents)
    /\ editingEvent # Null
    /\ editingEvent.id = ev.id

\* the close button of the suggestion popover
EventPopoverClose ==
    /\ ChartShown
    /\ \E ev \in Range(suggestedEvents) : EventPopoverShown(ev)
    /\ editingEvent' = Null
    /\ lastOp' = [op |-> "eventPopoverClose"]
    /\ suggestFrame
    /\ UNCHANGED <<chartTags, dismissedEvents, storedDismissed, storageFull, clock>>

\* the annotation "Pin to chart" appends
PinnedTag_Mut(ev, now) ==
    [id |-> "pinned-" \o ev.id \o "-" \o ToString(now),
     name |-> ev.label, color |-> ev.color, isSpan |-> TRUE,
     startDate |-> ev.startDate, endDate |-> ev.endDate,
     adjustedStart |-> ev.adjustedStart, adjustedEnd |-> ev.adjustedEnd,
     yearLabel |-> ev.yearLabel, tier |-> ev.tier, source |-> "suggested"]
PinnedTag(ev, now) ==
    [id |-> "pinned-" \o ev.id \o "-" \o ToString(now),
     name |-> ev.label,
     color |-> ev.color,
     sourceEventId |-> ev.id,
     isSpan |-> TRUE,
     startDate |-> ev.startDate,
     endDate |-> ev.endDate,
     adjustedStart |-> ToISOString(ev.adjustedStart),
     adjustedEnd |-> ToISOString(ev.adjustedEnd),
     yearLabel |-> ev.yearLabel,
     tier |-> ev.tier,
     source |-> "suggested"]

\* onClick of "Pin to chart"
PinToChart(ev) ==
    /\ ChartShown
    /\ EventPopoverShown(ev)
    /\ clock < MaxClock
    /\ clock' = clock + 1
    /\ chartTags' = AddTag(chartTags, PinnedTag(ev, clock + 1))
    /\ editingEvent' = Null
    /\ lastOp' = [op |-> "pin", ev |-> ev.id]
    /\ suggestFrame
    /\ UNCHANGED <<dismissedEvents, storedDismissed, storageFull>>

\* ---------------------------------------------------- props set by the parent

uiUnchanged ==
    UNCHANGED <<chartTags, draggedTag, dragPreview, editingTagId, editingTagData,
                dismissedEvents, storedDismissed, storageFull, editingEvent,
                pendingTimers, clock>>

SetChartData(d) ==
    /\ d \in DataSets \ {chartData}
    /\ chartData' = d
    /\ lastOp' = [op |-> "setData"]
    /\ UNCHANGED <<displayMode, showSuggestedEvents, containerWidth>>
    /\ uiUnchanged

SetDisplayMode(m) ==
    /\ m \in Modes \ {displayMode}
    /\ displayMode' = m
    /\ lastOp' = [op |-> "setMode"]
    /\ UNCHANGED <<chartData, showSuggestedEvents, containerWidth>>
    /\ uiUnchanged

ToggleSuggestedEvents ==
    /\ showSuggestedEvents' = ~showSuggestedEvents
    /\ lastOp' = [op |-> "toggleSuggested"]
    /\ UNCHANGED <<chartData, displayMode, containerWidth>>
    /\ uiUnchanged

\* ---------------------------------------------------------- specifications

\* Drag and drop: the templates, the preview, the drop with its deferred
\* opening of the editor, opening and closing the editor, and removal, on
\* each data sequence.  The component is freshly mounted.
NextDrag ==
    \/ \E tag \in DragTemplates : HandleDragStart(tag)
    \/ \E x \in Pixels : HandleDragOver(x)
    \/ \E o \in BOOLEAN : HandleDragLeave(o)
    \/ \E x \in Pixels : HandleDrop(x)
    \/ \E t \in pendingTimers : DropTimerFires(t)
    \/ HandleDragEnd
    \/ \E f \in CustomForms : HandleAddCustomTag(f)
    \/ \E i \in DOMAIN chartTags : PillClick(i)
    \/ CloseButton
    \/ HandleClickOutside
    \/ \E i \in DOMAIN chartTags : HandleRemoveTag(chartTags[i].id)

SpecDrag == Init /\ [][NextDrag]_vars

\* The edit session on tags the parent already holds: opening, editing the
\* draft, converting, saving, cancelling, deleting, and the parent replacing
\* the data sequence while all this goes on.
NextEdit ==
    \/ \E i \in DOMAIN chartTags : PillClick(i)
    \/ \E i \in DOMAIN chartTags : HandleTagLabelClick(i)
    \/ \E i \in DOMAIN chartTags : SpanLabelClick(i)
    \/ CloseButton
    \/ HandleClickOutside
    \/ \E in \in EditInputs : HandleEditingDataChange(in[1], in[2])
    \/ \E i \in IndexInputs : HandleStartDateChange(i)
    \/ \E i \in IndexInputs : HandleEndDateChange(i)
    \/ HandleSaveTagEdit
    \/ HandleConvertToSpan
    \/ HandleConvertToPoint
    \/ \E i \in DOMAIN chartTags : HandleRemoveTag(chartTags[i].id)
    \/ \E d \in DataSets : SetChartData(d)

SpecEdit == InitEdit /\ [][NextEdit]_vars

\* Suggested events: showing, dismissing, pinning and un-pinning them, under
\* every display mode and data sequence.  The component is freshly mounted.
NextSuggest ==
    \/ ToggleSuggestedEvents
    \/ \E m \in Modes : SetDisplayMode(m)
    \/ \E d \in DataSets : SetChartData(d)
    \/ \E ev \in Range(suggestedEvents) : HandleDismissEvent(ev.id)
    \/ HandleResetDismissed
    \/ \E ev \in Range(suggestedEvents) : EventLabelClick(ev)
    \/ EventPopoverClose
    \/ \E ev \in Range(suggestedEvents) : PinToChart(ev)
    \/ \E i \in DOMAIN chartTags : PillClick(i)
    \/ HandleClickOutside
    \/ \E i \in DOMAIN chartTags : HandleRemoveTag(chartTags[i].id)

SpecSuggest == Init /\ [][NextSuggest]_vars

\* The coordinate mapper on its own: every data sequence and container width,
\* the two mapping functions applied to every pointer position and every
\* index, and the container resized in between.
\* a sequence with a day missing between its first two samples
Gapped == << [date |-> BaseDay], [date |-> BaseDay + 2], [date |-> BaseDay + 3] >>

MapDataSets == DataSets \cup { Daily(1), Gapped }

\* container widths: the usual one, a narrower one, and a wider one whose
\* usable width is not a multiple of the number of sample intervals
Widths == { InitWidth, InitWidth - Y_AXIS_WIDTH, InitWidth + CHART_MARGINS.left + 1 }

\* pointer positions from left of the plot to right of it
MapPixels == (chartAreaLeft - 2)..(chartAreaLeft + chartAreaWidth + 2)

InitMap ==
    /\ chartData \in MapDataSets
    /\ displayMode = "both"
    /\ showSuggestedEvents = FALSE
    /\ containerWidth \in Widths
    /\ chartTags = <<>>
    /\ draggedTag = Null
    /\ dragPreview = Null
    /\ editingTagId = NullId
    /\ editingTagData = Null
    /\ dismissedEvents = <<>>
    /\ storedDismissed = Stored(<<>>)
    /\ storageFull = FALSE
    /\ editingEvent = Null
    /\ pendingTimers = {}
    /\ clock = 0
    /\ lastOp = [op |-> "init"]

\* updateWidth of the resize effect: setContainerWidth(offsetWidth)
UpdateWidth(width) ==
    /\ width \in Widths \ {containerWidth}
    /\ width > 0
    /\ containerWidth' = width
    /\ lastOp' = [op |-> "updateWidth"]
    /\ UNCHANGED <<chartData, displayMode, showSuggestedEvents>>
    /\ uiUnchanged

\* a call getDateIndexFromX(clientX), as handleDragOver and handleDrop make it
CallGetDateIndexFromX(clientX) ==
    /\ clientX \in MapPixels
    /\ lastOp' = [op |-> "getDateIndexFromX", x |-> clientX,
                  index |-> getDateIndexFromX(clientX)]
    /\ propsUnchanged /\ uiUnchanged

\* a call getXPositionForIndex(index), as handleDragOver and renderPlacedTags
\* make it
CallGetXPositionForIndex(index) ==
    /\ index \in IndexInputs
    /\ lastOp' = [op |-> "getXPositionForIndex", i |-> index,
                  x |-> getXPositionForIndex(index)]
    /\ propsUnchanged /\ uiUnchanged

\* Date instants from the day before the first sample to the day after the
\* last one of the longest sequence, at midnight and at noon
Instants ==
    { (BaseDay - 1) * HoursPerDay + k * (HoursPerDay \div 2) : k \in 0..(2 * (MaxN + 1)) }

\* a call getIndexForDate(targetDate), as renderSingleSpan makes it
CallGetIndexForDate(targetDate) ==
    /\ targetDate \in Instants
    /\ lastOp' = [op |-> "getIndexForDate", t |-> targetDate,
                  index |-> getIndexForDate(targetDate)]
    /\ propsUnchanged /\ uiUnchanged

\* the pointer placed exactly on the position of sample index, and that
\* position handed to getDateIndexFromX, as a drop on the sample does
CallGetDateIndexFromXAt(index) ==
    /\ index \in IndexInputs
    /\ lastOp' = [op |-> "getDateIndexFromXAt", i |-> index,
                  x |-> getXPositionForIndex(index),
                  index |-> getDateIndexFromXAt(getXPositionForIndex(index))]
    /\ propsUnchanged /\ uiUnchanged

NextMap ==
    \/ \E w \in Widths : UpdateWidth(w)
    \/ \E x \in MapPixels : CallGetDateIndexFromX(x)
    \/ \E i \in IndexInputs : CallGetXPositionForIndex(i)
    \/ \E t \in Instants : CallGetIndexForDate(t)
    \/ \E i \in IndexInputs : CallGetDateIndexFromXAt(i)

SpecMap == InitMap /\ [][NextMap]_vars

\* The annotation store under every operation that writes it, next to the
\* dismissal list: drop with its deferred editor, pin, save and remove, dismiss
\* and reset, while the parent switches the display to last year and shortens
\* the data sequence.  Suggestions are switched on, the preset is dropped at
\* one pointer position inside the plot.
InitStore ==
    /\ chartData = Daily(MaxN)
    /\ displayMode = "both"
    /\ showSuggestedEvents = TRUE
    /\ containerWidth = InitWidth
    /\ chartTags = <<>>
    /\ draggedTag = Null
    /\ dragPreview = Null
    /\ editingTagId = NullId
    /\ editingTagData = Null
    /\ dismissedEvents = <<>>
    /\ storedDismissed = Stored(<<>>)
    /\ storageFull = FALSE
    /\ editingEvent = Null
    /\ pendingTimers = {}
    /\ clock = 0
    /\ lastOp = [op |-> "init"]

StorePixels == { chartAreaLeft + (3 * chartAreaWidth) \div 8 }

NextStore ==
    \/ SetDisplayMode("ly")
    \/ SetChartData(Daily(MaxN - 2))
    \/ \E ev \in Range(suggestedEvents) : HandleDismissEvent(ev.id)
    \/ HandleResetDismissed
    \/ \E ev \in Range(suggestedEvents) : EventLabelClick(ev)
    \/ \E ev \in Range(suggestedEvents) : PinToChart(ev)
    \/ \E tag \in PRESET_TAGS : HandleDragStart(tag)
    \/ \E x \in StorePixels : HandleDrop(x)
    \/ \E t \in pendingTimers : DropTimerFires(t)
    \/ HandleSaveTagEdit
    \/ \E i \in DOMAIN chartTags : HandleRemoveTag(chartTags[i].id)

SpecStore == InitStore /\ [][NextStore]_vars

\* Opening and saving again: the editor opened from pill or label on the
\* annotations the parent holds, the draft turned into a span or left alone,
\* saved or abandoned, under every display mode and data sequence.
NextReopen ==
    \/ \E m \in Modes : SetDisplayMode(m)
    \/ \E d \in DataSets : SetChartData(d)
    \/ \E i \in DOMAIN chartTags : PillClick(i)
    \/ \E i \in DOMAIN chartTags : HandleTagLabelClick(i)
    \/ \E i \in DOMAIN chartTags : SpanLabelClick(i)
    \/ HandleClickOutside
    \/ HandleConvertToSpan
    \/ HandleSaveTagEdit

SpecReopen == InitEdit /\ [][NextReopen]_vars

\* The dismissal list and its copy in session storage: dismissing and
\* restoring suggestions, the component unmounted and mounted again, and
\* storage that starts empty, unreadable or filled by an earlier mount and
\* that may refuse writes.
\* what the item holds when the component is first mounted
StoredAtMount == { NoItem, CorruptItem, Stored(<< events[1].id >>) }

InitSession ==
    /\ chartData = Daily(MaxN)
    /\ displayMode = "both"
    /\ showSuggestedEvents = TRUE
    /\ containerWidth = InitWidth
    /\ chartTags = <<>>
    /\ draggedTag = Null
    /\ dragPreview = Null
    /\ editingTagId = NullId
    /\ editingTagData = Null
    /\ storageFull \in BOOLEAN
    /\ \E item \in StoredAtMount :
          /\ dismissedEvents = ReadStored(item)
          /\ storedDismissed = IF storageFull THEN item ELSE Stored(ReadStored(item))
    /\ editingEvent = Null
    /\ pendingTimers = {}
    /\ clock = 0
    /\ lastOp = [op |-> "init"]

\* the component is unmounted and mounted again: every useState cell starts
\* from its initializer, timers of the old instance no longer reach it, and
\* the persist effect runs once after the mount
Remount ==
    /\ dismissedEvents' = ReadStored(storedDismissed)
    /\ storedDismissed' = Persisted(dismissedEvents')
    /\ draggedTag' = Null
    /\ dragPreview' = Null
    /\ editingTagId' = NullId
    /\ editingTagData' = Null
    /\ editingEvent' = Null
    /\ pendingTimers' = {}
    /\ lastOp' = [op |-> "remount", had |-> dismissedEvents]
    /\ propsUnchanged
    /\ UNCHANGED <<chartTags, storageFull, clock>>

\* session storage starts or stops refusing writes
SetStorageFull(full) ==
    /\ full \in BOOLEAN \ {storageFull}
    /\ storageFull' = full
    /\ lastOp' = [op |-> "setStorageFull"]
    /\ propsUnchanged
    /\ UNCHANGED <<chartTags, draggedTag, dragPreview, editingTagId, editingTagData,
                   dismissedEvents, storedDismissed, editingEvent, pendingTimers, clock>>

NextSession ==
    \/ \E m \in Modes : SetDisplayMode(m)
    \/ \E ev \in Range(suggestedEvents) : HandleDismissEvent(ev.id)
    \/ HandleResetDismissed
    \/ \E ev \in Range(suggestedEvents) : EventLabelClick(ev)
    \/ Remount
    \/ \E full \in BOOLEAN : SetStorageFull(full)

SpecSession == InitSession /\ [][NextSession]_vars

\* ------------------------------------------------------------------ claims

visibleIds == { getFilteredEvents[i].id : i \in DOMAIN getFilteredEvents }

\* the adjusted range of a raw event overlaps the chart date range
OverlapsChart(ev) ==
    /\ Len(chartData) > 0
    /\ AdjustEvent(ev).adjustedStart <= ParseLocalMidnight(chartData[Len(chartData)].date)
    /\ AdjustEvent(ev).adjustedEnd >= ParseLocalMidnight(chartData[1].date)

SourceOf(tag) == IF "sourceEventId" \in DOMAIN tag THEN tag.sourceEventId ELSE ""

\* C1: in every reachable state no event whose id is in dismissedEvents is in
\* the result of getFilteredEvents, whatever the display mode, the chart range
\* and the annotation list are.
C1_DismissedNeverVisible ==
    \A id \in Range(dismissedEvents) : id \notin visibleIds

\* C1 witness: an event that overlaps the chart range and is not pinned has been
\* dismissed, while another event is still shown.
C1_Witness ==
    /\ lastOp.op = "dismiss"
    /\ \E ev \in Range(events) :
          /\ ev.id \in Range(dismissedEvents)
          /\ OverlapsChart(ev)
          /\ ev.id \notin pinnedEventIds
    /\ visibleIds # {}

\* C2: a pin step appends exactly one annotation, which carries the event's id
\* as sourceEventId, the event's label as name and source 'suggested'; the
\* annotations already in the store are unchanged; after the step the
\* reconciler does not return the event; and in every state no event that is
\* the sourceEventId of a stored annotation is returned.
C2_PinStep ==
    lastOp'.op = "pin" =>
        \E ev \in Range(suggestedEvents) :
            /\ lastOp'.ev = ev.id
            /\ Len(chartTags') = Len(chartTags) + 1
            /\ SubSeq(chartTags', 1, Len(chartTags)) = chartTags
            /\ SourceOf(chartTags'[Len(chartTags')]) = ev.id
            /\ chartTags'[Len(chartTags')].name = ev.label
            /\ "source" \in DOMAIN chartTags'[Len(chartTags')]
            /\ chartTags'[Len(chartTags')].source = "suggested"
            /\ Cardinality({ i \in DOMAIN chartTags' : SourceOf(chartTags'[i]) = ev.id }) = 1
            /\ ev.id \notin visibleIds'

C2_PinnedNotVisible ==
    \A i \in DOMAIN chartTags :
        SourceOf(chartTags[i]) # "" => SourceOf(chartTags[i]) \notin visibleIds

C2_PinAppendsAndHides == [][C2_PinStep]_vars /\ []C2_PinnedNotVisible

\* C2 witness: an event has just been pinned into a store that already held an
\* annotation, under data and a mode in which the event would otherwise show.
C2_Witness ==
    /\ lastOp.op = "pin"
    /\ Len(chartTags) = 2
    /\ SourceOf(chartTags[2]) = lastOp.ev
    /\ \E ev \in Range(events) : ev.id = lastOp.ev /\ OverlapsChart(ev)
                                 /\ ev.id \notin Range(dismissedEvents)

\* C3: a remove step takes exactly the annotation with the given id out of the
\* store; when that annotation was pinned from event e and no other annotation
\* carries sourceEventId e, then after the step e is returned by the reconciler
\* if and only if e is not in dismissedEvents and its adjusted range overlaps
\* the chart range.
C3_RemoveStep ==
    lastOp'.op = "remove" =>
        \E i \in DOMAIN chartTags :
            /\ chartTags[i].id = lastOp'.id
            /\ chartTags' = [j \in 1..(Len(chartTags) - 1) |->
                                IF j < i THEN chartTags[j] ELSE chartTags[j + 1]]
            /\ (/\ SourceOf(chartTags[i]) # ""
                /\ \A j \in DOMAIN chartTags \ {i} :
                      SourceOf(chartTags[j]) # SourceOf(chartTags[i]))
               => \A ev \in Range(events) :
                     ev.id = SourceOf(chartTags[i]) =>
                        (ev.id \in visibleIds'
                           <=> (ev.id \notin Range(dismissedEvents') /\ OverlapsChart(ev)'))

C3_UnpinnedReappears == [][C3_RemoveStep]_vars

\* C3 witness: the annotation pinned from an event has just been removed, and
\* the event is again among the visible suggestions.
C3_Witness ==
    /\ lastOp.op = "remove"
    /\ \E ev \in Range(events) :
          /\ lastOp.id = "pinned-" \o ev.id \o "-" \o ToString(clock)
          /\ ev.id \notin pinnedEventIds
          /\ ev.id \in visibleIds

DraftOrdered(draft) == draft.startIndex <= draft.endIndex

\* C4: in an open edit session, in the state after a handleStartDateChange or
\* handleEndDateChange call (with any integer argument) the draft has
\* startIndex <= endIndex.
C4_RangeNeverInverts ==
    (lastOp.op \in {"changeStart", "changeEnd"} /\ editingTagData # Null) =>
        DraftOrdered(editingTagData)

\* What the two handlers do guarantee: a call on an ordered draft leaves it
\* ordered, and a call that is accepted (the draft changes) leaves it ordered
\* whatever it was before.
C4_ChangeStep ==
    (lastOp'.op \in {"changeStart", "changeEnd"} /\ editingTagData # Null) =>
        /\ editingTagData' # Null
        /\ DraftOrdered(editingTagData) => DraftOrdered(editingTagData')
        /\ editingTagData' # editingTagData => DraftOrdered(editingTagData')

C4_ChangePreservesOrder == [][C4_ChangeStep]_vars

\* C5: handleSaveTagEdit called while the draft name is empty changes neither
\* the store nor the session (target and draft).
C5_SaveStep ==
    (lastOp'.op = "save" /\ editingTagData # Null /\ editingTagData.name = "") =>
        /\ chartTags' = chartTags
        /\ editingTagId' = editingTagId
        /\ editingTagData' = editingTagData

C5_EmptyNameSaveRejected == [][C5_SaveStep]_vars

\* C6: a drop at pixel x while a template is being dragged appends exactly one
\* annotation, whose startIndex and endIndex are getDateIndexFromX(x), whose
\* startDate and endDate are the date of that sample, which is a point
\* (isSpan false) of manual provenance (isManual true, no sourceEventId); the
\* annotations already there stay as they are, and the dragged template and
\* the preview are cleared.
C6_DropStep ==
    (lastOp'.op = "drop" /\ draggedTag # Null) =>
        LET i == getDateIndexFromX(lastOp'.x)
            n == Len(chartTags)
        IN  /\ i \in 0..(Len(chartData) - 1)
            /\ Len(chartTags') = n + 1
            /\ SubSeq(chartTags', 1, n) = chartTags
            /\ LET t == chartTags'[n + 1]
               IN  /\ t.startIndex = i /\ t.endIndex = i
                   /\ t.startDate = chartData[i + 1].date
                   /\ t.endDate = chartData[i + 1].date
                   /\ "isSpan" \in DOMAIN t /\ ~t.isSpan
                   /\ "isManual" \in DOMAIN t /\ t.isManual
                   /\ "sourceEventId" \notin DOMAIN t
                   /\ t.name = draggedTag.name
            /\ draggedTag' = Null
            /\ dragPreview' = Null

C6_DropCreatesPoint == [][C6_DropStep]_vars

\* C6 witness: with MaxN daily samples a drop inside the plot has put a second
\* annotation on the sample two days after the first date.
C6_Witness ==
    /\ lastOp.op = "drop"
    /\ draggedTag = Null
    /\ Len(chartData) = MaxN
    /\ Len(chartTags) = 2
    /\ chartTags[2].startIndex = 2 /\ chartTags[2].endIndex = 2
    /\ chartTags[2].startDate = BaseDay + 2 /\ chartTags[2].endDate = BaseDay + 2

\* C7: handleConvertToSpan on a draft with start index s sets the draft's
\* endIndex to min(s + 3, N - 1) and its endDate to the date of that sample,
\* and leaves startIndex, startDate, name, owner and description as they were.
C7_ConvertStep ==
    lastOp'.op = "convertToSpan" =>
        LET s == editingTagData.startIndex
            e == IF s + 3 <= Len(chartData) - 1 THEN s + 3 ELSE Len(chartData) - 1
        IN  /\ editingTagData'.endIndex = e
            /\ e >= 0 /\ e < Len(chartData)
            /\ editingTagData'.endDate = chartData[e + 1].date
            /\ \A f \in {"startIndex", "startDate", "name", "owner", "description"} :
                  editingTagData'[f] = editingTagData[f]
            /\ DOMAIN editingTagData' = DOMAIN editingTagData
            /\ editingTagId' = editingTagId

C7_ConvertToSpanSetsEnd == [][C7_ConvertStep]_vars

\* C7 witness: a conversion that was not clamped (end = start + 3 is before the
\* last sample), on a draft whose name was edited.
C7_Witness ==
    /\ lastOp.op = "convertToSpan"
    /\ editingTagData.endIndex = editingTagData.startIndex + 3
    /\ editingTagData.endIndex < Len(chartData) - 1
    /\ editingTagData.owner = "Bob"

\* C8: handleConvertToPoint run right after handleConvertToSpan leaves the
\* draft as it was before the conversion: endIndex = startIndex = the point's
\* index and endDate = startDate.
C8_RoundTripStep ==
    (lastOp.op = "convertToSpan" /\ lastOp'.op = "convertToPoint") =>
        /\ editingTagData' = lastOp.before
        /\ editingTagData'.endIndex = editingTagData'.startIndex
        /\ editingTagData'.startIndex = lastOp.before.startIndex
        /\ editingTagData'.endDate = editingTagData'.startDate

C8_SpanThenPointRestores == [][C8_RoundTripStep]_vars

\* C8 witness: a point draft was converted to a span and straight back.
C8_Witness ==
    /\ lastOp.op = "convertToPoint"
    /\ lastOp.prev = "convertToSpan"
    /\ editingTagData.startIndex = editingTagData.endIndex

\* C9: in every state at most one of dragging (draggedTag set) and editing
\* (editingTagId set) is active.
C9_DragXorEdit == ~(draggedTag # Null /\ editingTagId # NullId)

\* C10: the draft operations leave the store as it is, and the close button and
\* a click outside leave the store as it is and no session open.
C10_SessionStep ==
    /\ lastOp'.op \in {"editField", "changeStart", "changeEnd", "convertToSpan",
                       "convertToPoint"} => chartTags' = chartTags
    /\ lastOp'.op \in {"cancel", "clickOutside"} =>
          /\ chartTags' = chartTags
          /\ editingTagId' = NullId
          /\ editingTagData' = Null

C10_NoWriteBeforeSave == [][C10_SessionStep]_vars

\* C10 witness: after a rename, the draft of the open session differs from its
\* annotation in name and in range, and the store is the one of the mount.
C10_Draft ==
    /\ editingTagData # Null
    /\ \E i \in DOMAIN chartTags :
          /\ chartTags[i].id = editingTagId
          /\ chartTags[i].name # editingTagData.name
          /\ chartTags[i].endIndex # editingTagData.endIndex

C10_Witness ==
    /\ lastOp.op = "editField"
    /\ C10_Draft
    /\ chartTags \in InitialStores

\* the position of the edited annotation in the store, 0 when it is not there
TargetPos ==
    IF \E i \in DOMAIN chartTags : chartTags[i].id = editingTagId
    THEN CHOOSE i \in DOMAIN chartTags : chartTags[i].id = editingTagId
    ELSE 0

\* C11: handleSaveTagEdit with a non-empty draft name writes the draft's name,
\* owner and description into the edited annotation, sets its startDate and
\* endDate to the dates of the samples at the draft's startIndex and endIndex,
\* leaves every other annotation and every position as it was, and closes
\* the session.
C11_SaveStep ==
    (lastOp'.op = "save" /\ editingTagData # Null /\ editingTagData.name # "") =>
        LET p == TargetPos
            d == editingTagData
        IN  /\ p # 0
            /\ DOMAIN chartTags' = DOMAIN chartTags
            /\ \A i \in DOMAIN chartTags : i # p => chartTags'[i] = chartTags[i]
            /\ chartTags'[p].id = chartTags[p].id
            /\ chartTags'[p].name = d.name
            /\ chartTags'[p].owner = d.owner
            /\ chartTags'[p].description = d.description
            /\ d.startIndex \in 0..(Len(chartData) - 1)
            /\ d.endIndex \in 0..(Len(chartData) - 1)
            /\ chartTags'[p].startDate = chartData[d.startIndex + 1].date
            /\ chartTags'[p].endDate = chartData[d.endIndex + 1].date
            /\ editingTagId' = NullId
            /\ editingTagData' = Null

C11_SaveWritesDraft == [][C11_SaveStep]_vars

\* C12: handleRemoveTag on the annotation being edited removes that annotation
\* from the store whatever the draft holds, leaves every other annotation as it
\* was and in its order, and closes the session.
C12_DeleteStep ==
    (lastOp'.op = "remove" /\ editingTagId # NullId /\ lastOp'.id = editingTagId) =>
        LET p == TargetPos
        IN  /\ p # 0
            /\ Len(chartTags') = Len(chartTags) - 1
            /\ \A i \in DOMAIN chartTags' :
                  chartTags'[i] = chartTags[IF i < p THEN i ELSE i + 1]
            /\ \A i \in DOMAIN chartTags' : chartTags'[i].id # editingTagId
            /\ editingTagId' = NullId
            /\ editingTagData' = Null

C12_DeleteFromSession == [][C12_DeleteStep]_vars

\* C12 witness: the edited annotation was deleted while its draft had an empty
\* name; the session is closed and the other annotation is still there.
C12_Witness ==
    /\ lastOp.op = "remove"
    /\ lastOp.session = "unnamed"
    /\ editingTagId = NullId
    /\ chartTags = <<PinnedAtMount>>

\* the annotation with the given id, as the editor's draft shows it
SeededFrom(draft, tag) ==
    /\ draft.name = tag.name
    /\ draft.owner = (IF "owner" \in DOMAIN tag THEN tag.owner ELSE "")
    /\ draft.description = (IF "description" \in DOMAIN tag THEN tag.description ELSE "")
    /\ draft.startDate = tag.startDate
    /\ draft.endDate = tag.endDate

\* C13: there is one session at most (a target exactly when there is a draft),
\* and opening the editor of another annotation while a session is open
\* leaves the store as it is and a session on that other annotation whose
\* draft is seeded from it, the former draft being dropped.
C13_SwitchStep ==
    (/\ lastOp'.op \in {"openEditor", "tagLabelClick", "spanLabelClick"}
     /\ editingTagId # NullId
     /\ editingTagId' # editingTagId) =>
        /\ chartTags' = chartTags
        /\ \E i \in DOMAIN chartTags :
              /\ chartTags[i].id = editingTagId'
              /\ editingTagData' # Null
              /\ SeededFrom(editingTagData', chartTags[i])

C13_OneSession == (editingTagId = NullId) <=> (editingTagData = Null)

C13_SwitchDiscardsDraft == [][C13_SwitchStep]_vars /\ []C13_OneSession

\* C13 witness: the editor was opened on the pinned annotation while a session
\* on the placed one was open; the store is the one of the mount.
C13_Witness ==
    /\ lastOp.op = "openEditor"
    /\ lastOp.from = "promo-0"
    /\ editingTagId = "pinned-bf-0"
    /\ editingTagData.name = PinnedAtMount.name
    /\ chartTags \in InitialStores

\* days an event's range is moved back in the current display mode
ShiftDays == IF displayMode = "ly" THEN 365 ELSE 0

\* the raw event is to be shown: not dismissed, not the source of an annotation
\* of the store, and its moved range meets the chart's first..last date
ToBeShown(ev) ==
    /\ \A i \in DOMAIN dismissedEvents : dismissedEvents[i] # ev.id
    /\ \A i \in DOMAIN chartTags : SourceOf(chartTags[i]) # ev.id
    /\ Len(chartData) > 0
    /\ ev.startDate - ShiftDays <= chartData[Len(chartData)].date
    /\ ev.endDate - ShiftDays >= chartData[1].date

\* C14: getFilteredEvents returns exactly the raw events that are not
\* dismissed, not pinned and whose adjusted range overlaps the chart date range,
\* bounds included, each once and in the order of the raw list; for an empty
\* raw list it returns the empty list.
C14_ReconcilerExact ==
    LET shown == SelectSeq(events, ToBeShown)
    IN  /\ Len(getFilteredEvents) = Len(shown)
        /\ \A i \in DOMAIN shown : getFilteredEvents[i].id = shown[i].id
        /\ FilterEvents(<<>>) = <<>>

\* C14 witness: in last-year mode with the longest range, the event that ends
\* on the first sample once moved back is returned, with one event dismissed.
C14_Witness ==
    /\ displayMode = "ly"
    /\ chartData = Daily(MaxN)
    /\ visibleIds = {"ny"}
    /\ events[3].endDate - 365 = chartData[1].date
    /\ Len(dismissedEvents) > 0

\* C14 witness, other bound: the event that starts on the last sample is
\* returned while the event inside the range is pinned.
C14_WitnessStart ==
    /\ displayMode = "both"
    /\ visibleIds = {"edge"}
    /\ events[2].startDate = chartData[Len(chartData)].date
    /\ "bf" \in pinnedEventIds

\* the raw event a returned event was made from
RawOf(e) == CHOOSE ev \in Range(events) : ev.id = e.id

\* C15: in display mode "ly" every returned event has adjustedStart and
\* adjustedEnd 365 days (of 24 hours) before the midnights of its raw startDate
\* and endDate and yearLabel "LY"; in the other modes they are those midnights
\* and the label is "TY"; all events of one result carry the same label.
C15_YearShift ==
    /\ \A i \in DOMAIN getFilteredEvents :
          LET e == getFilteredEvents[i]
              back == IF displayMode = "ly" THEN 365 * 24 ELSE 0
          IN  /\ e.adjustedStart = RawOf(e).startDate * 24 - back
              /\ e.adjustedEnd = RawOf(e).endDate * 24 - back
              /\ e.yearLabel = (IF displayMode = "ly" THEN "LY" ELSE "TY")
              /\ e.startDate = RawOf(e).startDate /\ e.endDate = RawOf(e).endDate
    /\ \A i, j \in DOMAIN getFilteredEvents :
          getFilteredEvents[i].yearLabel = getFilteredEvents[j].yearLabel

\* C15 witness: in last-year mode the event of the following year is returned,
\* labelled "LY", on the day before the first sample.
C15_Witness ==
    /\ displayMode = "ly"
    /\ Len(getFilteredEvents) = 1
    /\ getFilteredEvents[1].id = "ny"
    /\ showSuggestedEvents
    /\ getFilteredEvents[1].yearLabel = "LY"
    /\ getFilteredEvents[1].adjustedStart = (chartData[1].date - 1) * 24
    /\ getFilteredEvents[1].startDate = chartData[1].date + 364

\* C15 witness, other modes: two events are returned unmoved, labelled "TY".
C15_WitnessTY ==
    /\ displayMode = "ty"
    /\ Len(getFilteredEvents) = 2
    /\ getFilteredEvents[2].yearLabel = "TY"
    /\ getFilteredEvents[2].adjustedStart = getFilteredEvents[2].startDate * 24

\* C16: the annotation "Pin to chart" appends has the visible event's adjusted
\* range as its date range: startDate and endDate are the raw dates moved back
\* by the display mode's shift (365 days in mode "ly", none otherwise).
C16_PinStep ==
    lastOp'.op = "pin" =>
        LET t == chartTags'[Len(chartTags')]
            raw == CHOOSE ev \in Range(events) : ev.id = lastOp'.ev
        IN  /\ t.startDate = raw.startDate - ShiftDays
            /\ t.endDate = raw.endDate - ShiftDays
            /\ ParseLocalMidnight(t.startDate) = t.adjustedStart
            /\ ParseLocalMidnight(t.endDate) = t.adjustedEnd

C16_PinStoresShiftedRange == [][C16_PinStep]_vars

\* i brought into lo..hi
Clamp(i, lo, hi) == IF i < lo THEN lo ELSE IF i > hi THEN hi ELSE i

\* C17: handleStartDateChange(i) sets the draft's startIndex to i clamped into
\* 0..N-1, for every integer i, and raises endIndex to it when it exceeds
\* endIndex; handleEndDateChange(i) sets endIndex to i clamped into 0..N-1 and
\* lowers startIndex to it when it is below startIndex.
C17_ChangeStep ==
    /\ (lastOp'.op = "changeStart" /\ editingTagData # Null) =>
          LET c == Clamp(lastOp'.i, 0, Len(chartData) - 1)
          IN  /\ editingTagData'.startIndex = c
              /\ editingTagData'.endIndex =
                    (IF c > editingTagData.endIndex THEN c ELSE editingTagData.endIndex)
    /\ (lastOp'.op = "changeEnd" /\ editingTagData # Null) =>
          LET c == Clamp(lastOp'.i, 0, Len(chartData) - 1)
          IN  /\ editingTagData'.endIndex = c
              /\ editingTagData'.startIndex =
                    (IF c < editingTagData.startIndex THEN c ELSE editingTagData.startIndex)

C17_ChangeClamps == [][C17_ChangeStep]_vars

\* What the handlers do for an index inside 0..N-1: the moved bound becomes i
\* and the other bound follows it when the range would invert.
C17_InRangeStep ==
    /\ (lastOp'.op = "changeStart" /\ lastOp'.i \in 0..(Len(chartData) - 1)) =>
          /\ editingTagData'.startIndex = lastOp'.i
          /\ editingTagData'.endIndex =
                (IF lastOp'.i > editingTagData.endIndex THEN lastOp'.i
                 ELSE editingTagData.endIndex)
    /\ (lastOp'.op = "changeEnd" /\ lastOp'.i \in 0..(Len(chartData) - 1)) =>
          /\ editingTagData'.endIndex = lastOp'.i
          /\ editingTagData'.startIndex =
                (IF lastOp'.i < editingTagData.startIndex THEN lastOp'.i
                 ELSE editingTagData.startIndex)

C17_ChangeInRange == [][C17_InRangeStep]_vars

\* |a|
Abs(a) == IF a < 0 THEN -a ELSE a

\* For N > 1 the index r is one whose position r/(N-1) is nearest to the
\* position of x in the usable width, x being first brought into the plot;
\* both positions are multiplied by (N-1) * chartAreaWidth.
NearestIndex(r, x) ==
    LET n == Len(chartData)
        p == Clamp(x - chartAreaLeft, 0, chartAreaWidth)
    IN  /\ r \in 0..(n - 1)
        /\ \A j \in 0..(n - 1) :
              Abs(r * chartAreaWidth - p * (n - 1)) <= Abs(j * chartAreaWidth - p * (n - 1))
        /\ x <= chartAreaLeft => r = 0
        /\ x >= chartAreaLeft + chartAreaWidth => r = n - 1

\* C18 as stated: getDateIndexFromX returns the nearest index for N > 1 and 0
\* for N <= 1, the empty sequence included.
C18_IndexForPixelStated ==
    lastOp.op = "getDateIndexFromX" =>
        IF Len(chartData) > 1 THEN NearestIndex(lastOp.index, lastOp.x)
        ELSE lastOp.index = 0

\* C18: getDateIndexFromX returns, for N > 1, the index in 0..N-1 nearest to
\* the position of x in the usable width (0 left of the plot, N-1 right of
\* it), 0 for N = 1, and -1 for the empty sequence.
C18_IndexForPixel ==
    lastOp.op = "getDateIndexFromX" =>
        IF Len(chartData) > 1 THEN NearestIndex(lastOp.index, lastOp.x)
        ELSE IF Len(chartData) = 1 THEN lastOp.index = 0
        ELSE lastOp.index = -1

\* C18 witness: with MaxN samples a pointer strictly inside the plot, off the
\* first and last sample, was mapped to an inner index.
C18_Witness ==
    /\ lastOp.op = "getDateIndexFromX"
    /\ Len(chartData) = MaxN
    /\ lastOp.x > chartAreaLeft /\ lastOp.x < chartAreaLeft + chartAreaWidth
    /\ lastOp.index = 2
    /\ 2 * chartAreaWidth # (lastOp.x - chartAreaLeft) * (MaxN - 1)

\* the fraction f is the pixel position left + (i / d) * chartAreaWidth
IsAt(f, i, d) == f.num * d = f.den * (chartAreaLeft * d + i * chartAreaWidth)

\* C19 as stated: getXPositionForIndex(i), i >= 0, returns
\* left + (i/(N-1)) * usableWidth for N > 1, the midpoint of the usable width
\* for N = 1 and the left inset for N = 0.
C19_PixelForIndexStated ==
    (lastOp.op = "getXPositionForIndex" /\ lastOp.i >= 0) =>
        IF Len(chartData) > 1 THEN IsAt(lastOp.x, lastOp.i, Len(chartData) - 1)
        ELSE IF Len(chartData) = 1 THEN IsAt(lastOp.x, 1, 2)
        ELSE lastOp.x.num = lastOp.x.den * chartAreaLeft

\* C19: getXPositionForIndex(i) returns left + (i/(N-1)) * usableWidth for
\* N > 1 and i >= 0, the midpoint of the usable width for N = 1 and i >= 0,
\* and 0 for N = 0 and for a negative index.
C19_PixelForIndex ==
    lastOp.op = "getXPositionForIndex" =>
        IF Len(chartData) = 0 \/ lastOp.i < 0 THEN lastOp.x.num = 0
        ELSE IF Len(chartData) = 1 THEN IsAt(lastOp.x, 1, 2)
        ELSE IsAt(lastOp.x, lastOp.i, Len(chartData) - 1)

\* C19 witness: with MaxN samples the position of an inner sample, which is
\* strictly between the plot's left and right edge.
C19_Witness ==
    /\ lastOp.op = "getXPositionForIndex"
    /\ Len(chartData) = MaxN
    /\ lastOp.i = 1
    /\ lastOp.x.num > chartAreaLeft * lastOp.x.den
    /\ lastOp.x.num * (MaxN - 1) = lastOp.x.den * (chartAreaLeft * (MaxN - 1) + chartAreaWidth)

\* C19 witness, one sample: the position is the middle of the plot.
C19_WitnessSingle ==
    /\ lastOp.op = "getXPositionForIndex"
    /\ Len(chartData) = 1 /\ lastOp.i = 0
    /\ 2 * lastOp.x.num = lastOp.x.den * (2 * chartAreaLeft + chartAreaWidth)

\* C20: for N > 1 and a pointer position x inside the usable width, the pixel
\* position of the index getDateIndexFromX(x) is at most one sample spacing,
\* usableWidth / (N-1), away from x (both for the same container width).
C20_RoundTripWithinSpacing ==
    (/\ lastOp.op = "getDateIndexFromX"
     /\ Len(chartData) > 1
     /\ lastOp.x >= chartAreaLeft
     /\ lastOp.x <= chartAreaLeft + chartAreaWidth) =>
        LET f == getXPositionForIndex(lastOp.index)
        IN  Abs(f.num - lastOp.x * f.den) * (Len(chartData) - 1) <= f.den * chartAreaWidth

\* C20 witness: a pointer position inside the plot that is not the position of
\* its index, with MaxN samples.
C20_Witness ==
    /\ lastOp.op = "getDateIndexFromX"
    /\ Len(chartData) = MaxN
    /\ lastOp.x > chartAreaLeft /\ lastOp.x < chartAreaLeft + chartAreaWidth
    /\ lastOp.index = 1
    /\ getXPositionForIndex(1).num # lastOp.x * getXPositionForIndex(1).den

\* C21: on a non-empty data sequence getIndexForDate(d) returns an index i of
\* the sequence such that no sample is closer in time to d than sample i and
\* every sample before i is strictly farther; in particular, when a sample's
\* date is d itself, i is the first such sample.
C21_NearestLowest ==
    (lastOp.op = "getIndexForDate" /\ Len(chartData) > 0) =>
        LET i == lastOp.index
            dist(j) == AbsDiff(ParseLocalMidnight(chartData[j + 1].date), lastOp.t)
        IN  /\ i \in 0..(Len(chartData) - 1)
            /\ \A j \in 0..(Len(chartData) - 1) : dist(i) <= dist(j)
            /\ \A j \in 0..(i - 1) : dist(j) > dist(i)
            /\ (\E j \in 0..(Len(chartData) - 1) : dist(j) = 0) => dist(i) = 0

\* C21 witness: a date that is no sample's date and lies as far from sample 0
\* as from sample 1 has been resolved to sample 0.
C21_Witness ==
    /\ lastOp.op = "getIndexForDate"
    /\ Len(chartData) > 1
    /\ lastOp.index = 0
    /\ AbsDiff(ParseLocalMidnight(chartData[1].date), lastOp.t)
         = AbsDiff(ParseLocalMidnight(chartData[2].date), lastOp.t)
    /\ lastOp.t # ParseLocalMidnight(chartData[1].date)

\* C21 second witness: a date that is the date of a sample other than the
\* first has been resolved to that sample.
C21_WitnessExact ==
    /\ lastOp.op = "getIndexForDate"
    /\ lastOp.index > 0
    /\ ParseLocalMidnight(chartData[lastOp.index + 1].date) = lastOp.t

\* C22: a dismiss step adds the dismissed id to the dismissal list and keeps
\* every id already in it; a reset step empties the list; every other step
\* (pin, remove, save, drop and its deferred editor, drag start, a label click,
\* a display-mode or data change) leaves the list as it is.
C22_DismissalStep ==
    /\ lastOp'.op = "dismiss" =>
          Range(dismissedEvents') = Range(dismissedEvents) \cup {lastOp'.ev}
    /\ lastOp'.op = "reset" => dismissedEvents' = <<>>
    /\ lastOp'.op # "reset" => Range(dismissedEvents) \subseteq Range(dismissedEvents')
    /\ lastOp'.op \notin {"dismiss", "reset"} => dismissedEvents' = dismissedEvents

C22_DismissalOnlyGrows == [][C22_DismissalStep]_vars

\* C22 witness: a second event has just been dismissed and the first one is
\* still in the list, after a pin and a drop went into the store and the
\* display mode changed.
C22_Witness ==
    /\ lastOp.op = "dismiss"
    /\ Len(dismissedEvents) = 2
    /\ dismissedEvents[2] = lastOp.ev
    /\ dismissedEvents[1] # lastOp.ev
    /\ Len(chartTags) = 2
    /\ pinnedEventIds # {}
    /\ displayMode = "ly"

idsOf(tags) == [i \in DOMAIN tags |-> tags[i].id]

DistinctIds(tags) ==
    \A i, j \in DOMAIN tags : i # j => tags[i].id # tags[j].id

\* C23: in every reachable state the annotations of the store have pairwise
\* distinct ids; a save step leaves the id of every annotation as it was; and a
\* drop or pin step that changes the store appends one annotation whose id no
\* annotation of the store had, so that no add ever meets an id already
\* present.
C23_IdStep ==
    /\ lastOp'.op = "save" => idsOf(chartTags') = idsOf(chartTags)
    /\ (lastOp'.op \in {"drop", "pin"} /\ chartTags' # chartTags) =>
          /\ Len(chartTags') = Len(chartTags) + 1
          /\ SubSeq(chartTags', 1, Len(chartTags)) = chartTags
          /\ chartTags'[Len(chartTags')].id \notin Range(idsOf(chartTags))

C24_SaveStep ==
    lastOp'.op = "save" =>
        /\ editingTagId # NullId
        /\ \E i \in DOMAIN chartTags : chartTags[i].id = editingTagId

C24_SaveTargetPresent == [][C24_SaveStep]_vars

\* a session whose target has left the store does exist: the deferred editor
\* of a drop opened after the dropped annotation was removed
C24_OrphanSession ==
    /\ editingTagId # NullId
    /\ editingTagData # Null
    /\ \A i \in DOMAIN chartTags : chartTags[i].id # editingTagId

\* every id an annotation of the store can carry
MintableIds ==
    { UniqueId(t, k) : t \in PRESET_TAGS, k \in 0..MaxClock }
      \cup { PinnedTag(AdjustEvent(ev), k).id : ev \in Range(events), k \in 0..MaxClock }

\* C25: removing an id that no annotation carries gives the store back
\* unchanged; and a remove step takes the annotation with the given id out,
\* keeps all others in their order, and leaves a store on which the same
\* removal changes nothing (applied twice it yields what it yields once).
C25_AbsentUnchanged ==
    \A id \in MintableIds \ Range(idsOf(chartTags)) : WithoutTag(chartTags, id) = chartTags

C25_RemoveStep ==
    lastOp'.op = "remove" =>
        \E i \in DOMAIN chartTags :
            /\ chartTags[i].id = lastOp'.id
            /\ chartTags' = [j \in 1..(Len(chartTags) - 1) |->
                                IF j < i THEN chartTags[j] ELSE chartTags[j + 1]]
            /\ lastOp'.id \notin Range(idsOf(chartTags'))
            /\ WithoutTag(chartTags', lastOp'.id) = chartTags'

C25_RemoveIdempotent == []C25_AbsentUnchanged /\ [][C25_RemoveStep]_vars

\* C25 witness: of two annotations the one added first has just been removed
\* and the other one is still in the store.
C25_Witness ==
    /\ lastOp.op = "remove"
    /\ clock = 2
    /\ Len(chartTags) = 1
    /\ chartTags[1].id \in { id \in MintableIds : \E t \in PRESET_TAGS : id = UniqueId(t, 2) }
                             \cup { PinnedTag(AdjustEvent(ev), 2).id : ev \in Range(events) }
    /\ lastOp.id \in MintableIds \ Range(idsOf(chartTags))

\* the date ranges of two annotations have a day in common
RangesOverlap(a, b) == a.startDate <= b.endDate /\ b.startDate <= a.endDate

\* C26: a drop or pin step that changes the store keeps every annotation at
\* its position and puts the new one after the last; a save step keeps the
\* length of the store, the position of the saved annotation and every other
\* annotation as it was; and no step other than a remove makes the store
\* shorter or moves an annotation, whether or not date ranges overlap.
C26_OrderStep ==
    /\ (lastOp'.op \in {"drop", "pin"} /\ chartTags' # chartTags) =>
          /\ Len(chartTags') = Len(chartTags) + 1
          /\ SubSeq(chartTags', 1, Len(chartTags)) = chartTags
    /\ lastOp'.op = "save" =>
          /\ Len(chartTags') = Len(chartTags)
          /\ \A i \in DOMAIN chartTags :
                /\ chartTags'[i].id = chartTags[i].id
                /\ chartTags[i].id # editingTagId => chartTags'[i] = chartTags[i]
    /\ lastOp'.op # "remove" =>
          /\ Len(chartTags') >= Len(chartTags)
          /\ \A i \in DOMAIN chartTags : chartTags'[i].id = chartTags[i].id

C26_InsertionOrderKept == [][C26_OrderStep]_vars

\* C26 witness: an annotation placed on a day of a pinned span has just been
\* saved; the span is still the first entry and the saved annotation the
\* second.
C26_Witness ==
    /\ lastOp.op = "save"
    /\ Len(chartTags) = 2
    /\ SourceOf(chartTags[1]) # ""
    /\ Flag(chartTags[2], "isManual")
    /\ "yearLabel" \in DOMAIN chartTags[2]
    /\ RangesOverlap(chartTags[1], chartTags[2])

\* C27: when the editor that a drop opens has just been installed, its target
\* is an annotation of the store, the one the drop created, and the draft
\* carries that annotation's name and startIndex = endIndex = its drop index,
\* whatever was processed between the drop and the opening.
C27_DropEditorOnNewTag ==
    lastOp.op = "dropTimer" =>
        /\ editingTagData # Null
        /\ \E i \in DOMAIN chartTags :
              /\ chartTags[i].id = editingTagId
              /\ editingTagData.name = chartTags[i].name
              /\ editingTagData.startIndex = chartTags[i].dateIndex
              /\ editingTagData.endIndex = chartTags[i].dateIndex

\* What the deferred callback does guarantee: the session it installs names
\* the id minted by its drop and carries the draft computed at drop time.
C27_TimerStep ==
    lastOp'.op = "dropTimer" =>
        \E t \in pendingTimers :
            /\ editingTagId' = t.id
            /\ editingTagData' = t.data
            /\ t.data.startIndex = t.data.endIndex
            /\ pendingTimers' = pendingTimers \ {t}

C27_TimerInstallsDropDraft == [][C27_TimerStep]_vars

\* C28: a handleDragOver step changes nothing but the preview, and when a
\* template is being dragged the preview it leaves shows that template on a
\* sample of the sequence, the sample of some pointer position, with that
\* sample's date; a handleDragEnd step leaves the store as it was, schedules
\* no editor, and clears the dragged template and the preview.
C28_DragStep ==
    /\ lastOp'.op = "dragOver" =>
          /\ UNCHANGED <<chartTags, draggedTag, editingTagId, editingTagData,
                         pendingTimers, clock>>
          /\ draggedTag = Null => dragPreview' = dragPreview
          /\ draggedTag # Null =>
                /\ dragPreview' # Null
                /\ dragPreview'.tag = draggedTag
                /\ \E x \in Pixels : dragPreview'.index = getDateIndexFromX(x)
                /\ dragPreview'.index \in 0..(Len(chartData) - 1)
                /\ dragPreview'.date = chartData[dragPreview'.index + 1].date
    /\ lastOp'.op = "dragEnd" =>
          /\ UNCHANGED <<chartTags, editingTagId, editingTagData, pendingTimers, clock>>
          /\ draggedTag' = Null
          /\ dragPreview' = Null

C28_DragNeverCommits == [][C28_DragStep]_vars

\* C28 witness: a drag that had a preview over a store with one annotation has
\* just been cancelled.
C28_Witness ==
    /\ lastOp.op = "dragEnd"
    /\ lastOp.dragging /\ lastOp.preview
    /\ Len(chartTags) = 1
    /\ draggedTag = Null /\ dragPreview = Null
    /\ pendingTimers = {}

\* C29: every annotation of the store has startDate <= endDate, and its isSpan
\* flag is set exactly when startDate < endDate (a point has equal dates, a
\* span has not).
C29_RangeAndKindAgree ==
    \A i \in DOMAIN chartTags :
        /\ chartTags[i].startDate <= chartTags[i].endDate
        /\ Flag(chartTags[i], "isSpan") <=> chartTags[i].startDate < chartTags[i].endDate

\* What drop and save do keep: a manual annotation's isSpan flag is set exactly
\* when its startIndex and endIndex differ.
C29_ManualKindFollowsIndices ==
    \A i \in DOMAIN chartTags :
        Flag(chartTags[i], "isManual") =>
            (Flag(chartTags[i], "isSpan") <=> chartTags[i].startIndex # chartTags[i].endIndex)

\* the draft d carries annotation t's name, owner, description and dates, and
\* its indices are those of the samples dated t's start and end date
SeededFromCurrent(d, t) ==
    /\ d.name = t.name
    /\ d.owner = StrOr(t, "owner", "")
    /\ d.description = StrOr(t, "description", "")
    /\ d.startDate = t.startDate
    /\ d.endDate = t.endDate
    /\ getIndexFromDate(t, "startDate") # -1 => d.startIndex = getIndexFromDate(t, "startDate")
    /\ getIndexFromDate(t, "endDate") # -1 => d.endIndex = getIndexFromDate(t, "endDate")

\* C30: after openTagEditor ran for an annotation of the store, manual or
\* pinned, the draft carries the annotation's name, owner, description,
\* startDate and endDate, and the draft's startIndex and endIndex are the
\* indices of the samples that have these dates.
C30_OpenStep ==
    lastOp'.op = "openEditor" =>
        \E i \in DOMAIN chartTags :
            /\ chartTags[i].id = editingTagId'
            /\ editingTagData' # Null
            /\ SeededFromCurrent(editingTagData', chartTags[i])

C30_OpenSeedsFromAnnotation == [][C30_OpenStep]_vars

\* What openTagEditor does guarantee: name, owner, description and dates are
\* the annotation's for every annotation, and the indices are as claimed for
\* a manual annotation.
C30_ManualOpenStep ==
    lastOp'.op \in {"openEditor", "tagLabelClick", "spanLabelClick"}
      /\ editingTagId' # editingTagId =>
        \E i \in DOMAIN chartTags :
            /\ chartTags[i].id = editingTagId'
            /\ editingTagData'.name = chartTags[i].name
            /\ editingTagData'.startDate = chartTags[i].startDate
            /\ editingTagData'.endDate = chartTags[i].endDate
            /\ Flag(chartTags[i], "isManual") =>
                  SeededFromCurrent(editingTagData', chartTags[i])

C30_ManualSeededFromAnnotation == [][C30_ManualOpenStep]_vars

\* C31: whenever an edit session is open, the draft indices lie on the sample
\* grid, 0 <= startIndex <= endIndex <= N - 1, and the draft's startDate and
\* endDate are the dates of the samples at these indices.
C31_DraftOnGrid ==
    (editingTagId # NullId /\ editingTagData # Null) =>
        /\ 0 <= editingTagData.startIndex
        /\ editingTagData.startIndex <= editingTagData.endIndex
        /\ editingTagData.endIndex <= Len(chartData) - 1
        /\ editingTagData.startDate = getDateFromIndex(editingTagData.startIndex)
        /\ editingTagData.endDate = getDateFromIndex(editingTagData.endIndex)

\* C32: whenever an edit session is open (editingTagId set), an annotation
\* with that id is in the store.
C32_SessionTargetInStore ==
    editingTagId # NullId => \E i \in DOMAIN chartTags : chartTags[i].id = editingTagId

\* What the synchronous handlers keep: a step other than the deferred
\* callback of a drop that leaves a session open leaves its target in the
\* store whenever the target was there before or the session was just opened.
C32_SyncStep ==
    (lastOp'.op # "dropTimer" /\ editingTagId' # NullId
       /\ (editingTagId' # editingTagId
             \/ \E i \in DOMAIN chartTags : chartTags[i].id = editingTagId)) =>
        \E i \in DOMAIN chartTags' : chartTags'[i].id = editingTagId'

C32_SyncHandlersKeepTarget == [][C32_SyncStep]_vars

\* the handlers that call openTagEditor
OpenOps == { "openEditor", "tagLabelClick", "spanLabelClick" }

\* C33: when a save follows the opening of the editor with the draft still as
\* openTagEditor seeded it, the saved annotation keeps its startDate, its
\* endDate, its point/span kind, the samples it is drawn on and, where it had
\* them, its adjustedStart and adjustedEnd, in every display mode.
C33_ReopenStep ==
    (lastOp.op \in OpenOps /\ lastOp'.op = "save") =>
        \A i \in DOMAIN chartTags :
            (chartTags[i].id = editingTagId /\ editingTagData = OpenDraft(chartTags[i])) =>
                /\ Len(chartTags') = Len(chartTags)
                /\ chartTags'[i].id = chartTags[i].id
                /\ chartTags'[i].startDate = chartTags[i].startDate
                /\ chartTags'[i].endDate = chartTags[i].endDate
                /\ Flag(chartTags'[i], "isSpan") = Flag(chartTags[i], "isSpan")
                /\ RenderedRange(chartTags'[i]) = RenderedRange(chartTags[i])
                /\ \A f \in {"adjustedStart", "adjustedEnd"} :
                      f \in DOMAIN chartTags[i] => chartTags'[i][f] = chartTags[i][f]

C33_SaveTargetsManualStep ==
    lastOp'.op = "save" =>
        \E i \in DOMAIN chartTags :
            chartTags[i].id = editingTagId /\ Flag(chartTags[i], "isManual")

C33_SaveTargetsManual == [][C33_SaveTargetsManualStep]_vars

\* C34 (what the model shows about it): an annotation that stays in the store
\* keeps its sourceEventId and its source field across every step, and the
\* event a stored annotation names is never in the reconciler's result.  No
\* save step targets a pinned annotation: its session has no popover.
C34_ProvenanceStep ==
    /\ \A i \in DOMAIN chartTags : \A j \in DOMAIN chartTags' :
          chartTags'[j].id = chartTags[i].id =>
              /\ SourceOf(chartTags'[j]) = SourceOf(chartTags[i])
              /\ StrOr(chartTags'[j], "source", "") = StrOr(chartTags[i], "source", "")
    /\ lastOp'.op = "save" =>
          \A i \in DOMAIN chartTags :
              chartTags[i].id = editingTagId => SourceOf(chartTags[i]) = ""

C34_ProvenanceKept ==
    [](\A i \in DOMAIN chartTags : SourceOf(chartTags[i]) \notin visibleIds)
      /\ [][C34_ProvenanceStep]_vars

\* C35: the store never holds two annotations with the same sourceEventId, and
\* a pin step pins an event that no annotation of the store names.
C35_OnePerSource ==
    \A i \in DOMAIN chartTags : \A j \in DOMAIN chartTags :
        (SourceOf(chartTags[i]) # "" /\ SourceOf(chartTags[i]) = SourceOf(chartTags[j])) => i = j

C35_PinStep ==
    lastOp'.op = "pin" =>
        /\ lastOp'.ev \notin pinnedEventIds
        /\ lastOp'.ev \in pinnedEventIds'

C35_PinnedAtMostOnce == []C35_OnePerSource /\ [][C35_PinStep]_vars

\* C35 witness: an event that was pinned and un-pinned has just been pinned
\* again, in another display mode; the store holds one annotation for it.
C35_Witness ==
    /\ lastOp.op = "pin"
    /\ clock = 2
    /\ displayMode # "both"
    /\ Len(chartTags) = 1
    /\ SourceOf(chartTags[1]) = lastOp.ev
    /\ chartTags[1].id = PinnedTag(AdjustEvent(events[1]), 2).id

\* C36: whenever the suggestion popover is open (editingEvent set), its event
\* is one of the suggestions currently shown.
C36_PopoverEventShown ==
    editingEvent # Null =>
        \E i \in DOMAIN suggestedEvents : suggestedEvents[i].id = editingEvent.id

\* What the handlers do guarantee: the popover opens on a shown suggestion
\* only, and a pin step closes it.
C36_OpenPinStep ==
    /\ (lastOp'.op = "eventLabelClick" /\ editingEvent' # Null) =>
          \E i \in DOMAIN suggestedEvents' : suggestedEvents'[i].id = editingEvent'.id
    /\ lastOp'.op = "pin" => editingEvent' = Null

C36_OpensOnShownPinCloses == [][C36_OpenPinStep]_vars

\* C37: a handleConvertToSpan step on a point draft with index s leaves
\* endIndex > startIndex exactly when s < N - 1, leaves endIndex = startIndex
\* = N - 1 when s = N - 1, and never leaves endIndex above N - 1 or below
\* startIndex.
C37_SpanStep ==
    lastOp'.op = "convertToSpan" =>
        LET s == editingTagData.startIndex
            n == Len(chartData)
        IN  /\ editingTagData'.startIndex = s
            /\ (editingTagData'.endIndex > s) <=> (s < n - 1)
            /\ s = n - 1 => editingTagData'.endIndex = n - 1
            /\ editingTagData'.endIndex <= n - 1
            /\ editingTagData'.endIndex >= s

C37_ConvertToSpanKind == [][C37_SpanStep]_vars

\* What handleConvertToSpan does guarantee: the same, for a draft whose index
\* is a sample of the current sequence.
C37_OnGridStep ==
    (lastOp'.op = "convertToSpan" /\ editingTagData.startIndex \in 0..(Len(chartData) - 1)) =>
        LET s == editingTagData.startIndex
            n == Len(chartData)
        IN  /\ (editingTagData'.endIndex > s) <=> (s < n - 1)
            /\ s = n - 1 => editingTagData'.endIndex = n - 1
            /\ editingTagData'.endIndex <= n - 1
            /\ editingTagData'.endIndex >= s

C37_ConvertToSpanKindOnGrid == [][C37_OnGridStep]_vars

\* C38: for a sequence of N >= 1 samples and an index i in 0..N-1,
\* getDateIndexFromX applied to getXPositionForIndex(i) returns i (the usable
\* width is positive for every container width).
C38_LeftInverse ==
    (/\ lastOp.op = "getDateIndexFromXAt"
     /\ Len(chartData) >= 1
     /\ lastOp.i \in 0..(Len(chartData) - 1)
     /\ chartAreaWidth > 0) =>
        lastOp.index = lastOp.i

\* C38 witness: with MaxN samples, an inner sample whose position is not a
\* whole pixel was mapped back to itself.
C38_Witness ==
    /\ lastOp.op = "getDateIndexFromXAt"
    /\ Len(chartData) = MaxN
    /\ lastOp.i = 1 /\ lastOp.index = 1
    /\ lastOp.x.num % lastOp.x.den # 0
    /\ chartAreaWidth > 0

\* C38 witness, one sample: the middle of the plot is mapped to sample 0.
C38_WitnessSingle ==
    /\ lastOp.op = "getDateIndexFromXAt"
    /\ Len(chartData) = 1
    /\ lastOp.i = 0 /\ lastOp.index = 0
    /\ 2 * lastOp.x.num = lastOp.x.den * (2 * chartAreaLeft + chartAreaWidth)

\* the stored item is the JSON text of the in-memory list
Mirrored == storedDismissed = [kind |-> "json", value |-> dismissedEvents]

\* C39 as stated: after every dismiss and reset the stored copy is the
\* in-memory list, and a component mounted again starts with the list it had
\* before.
C39_MirrorStated ==
    /\ lastOp.op \in {"dismiss", "reset"} => Mirrored
    /\ lastOp.op = "remount" => dismissedEvents = lastOp.had

\* C39: a dismiss, reset or mount during which storage accepts the write
\* leaves the stored copy equal to the in-memory list, and one during which it
\* refuses leaves the stored copy as it was; a component mounted again starts
\* with the list last stored, the empty list when nothing readable is stored,
\* and so with the list it had before whenever the copy mirrored that list.
C39_PersistStep ==
    lastOp'.op \in {"dismiss", "reset", "remount"} =>
        /\ ~storageFull => storedDismissed' = [kind |-> "json", value |-> dismissedEvents']
        /\ storageFull => storedDismissed' = storedDismissed
        /\ lastOp'.op = "remount" =>
              /\ dismissedEvents' = IF storedDismissed.kind = "json"
                                    THEN storedDismissed.value ELSE << >>
              /\ Mirrored => dismissedEvents' = dismissedEvents

C39_MirrorWhenWritable ==
    []((lastOp.op \in {"dismiss", "reset", "remount"} /\ ~storageFull) => Mirrored)
      /\ [][C39_PersistStep]_vars

\* C39 witness: two dismissals were stored and the component mounted again
\* started with both, in the order they were made.
C39_Witness ==
    /\ lastOp.op = "remount"
    /\ ~storageFull
    /\ Len(dismissedEvents) = 2
    /\ dismissedEvents = lastOp.had
    /\ Mirrored

\* C39 witness for a refused write: the list was reset while storage was full,
\* and the component mounted again started with the dismissals stored before.
C39_WitnessStale ==
    /\ lastOp.op = "remount"
    /\ lastOp.had = << >>
    /\ Len(dismissedEvents) > 0
====
